---- MODULE Spec2Model ----
(***************************************************************************)
(* A model of the order processor of odamcpserver:                         *)
(*   source/order/process.py  - catalog loading, name index, quantity and  *)
(*                              note extraction, product matching and      *)
(*                              order assembly.                            *)
(* Text is modelled as TLA+ strings, character by character: Len, SubSeq   *)
(* and \o are the only primitive string operations used.                   *)
(***************************************************************************)
EXTENDS Integers, Sequences, FiniteSets, TLC

(***************************************************************************)
(* Python str primitives                                                   *)
(***************************************************************************)

\* s[i-1] of Python, 1-based here
At(s, i) == SubSeq(s, i, i)

\* s[i-1:] of Python
From(s, i) == SubSeq(s, i, Len(s))

DigitChars == "0123456789"

IsDigit(c) == \E k \in 1..10 : At(DigitChars, k) = c

DigitVal(c) == (CHOOSE k \in 1..10 : At(DigitChars, k) = c) - 1

\* the characters \s matches and str.strip() removes
IsSpace(c) == c \in {" ", "\t", "\n", "\r"}

\* the characters of the model's alphabet that are not \w; every other
\* character of the alphabet is a letter, a digit or "_"
IsWordChar(c) == c \notin {" ", "\t", "\n", "\r", ":", ",", ".", "(", ")", "%", "-"}

UpperChars == "ABCDEFGHIJKLMNOPQRSTUVWXYZ"

LowerChars == "abcdefghijklmnopqrstuvwxyz"

LowerChar(c) ==
    IF \E k \in 1..26 : At(UpperChars, k) = c
    THEN At(LowerChars, CHOOSE k \in 1..26 : At(UpperChars, k) = c)
    ELSE c

RECURSIVE Lower(_)
\* str.lower()
Lower(s) == IF s = "" THEN "" ELSE LowerChar(At(s, 1)) \o Lower(From(s, 2))

\* s.startswith(p, i-1)
StartsAt(s, i, p) == i + Len(p) - 1 <= Len(s) /\ SubSeq(s, i, i + Len(p) - 1) = p

\* p in s
Contains(s, p) == \E i \in 1..(Len(s) - Len(p) + 1) : StartsAt(s, i, p)

\* s.find(p) + 1, 0 when p is not in s
Find(s, p) ==
    IF Contains(s, p)
    THEN CHOOSE i \in 1..(Len(s) - Len(p) + 1) :
             StartsAt(s, i, p) /\ \A j \in 1..(i - 1) : ~StartsAt(s, j, p)
    ELSE 0

RECURSIVE LStrip(_)
LStrip(s) == IF s # "" /\ IsSpace(At(s, 1)) THEN LStrip(From(s, 2)) ELSE s

RECURSIVE RStrip(_)
RStrip(s) ==
    IF s # "" /\ IsSpace(At(s, Len(s))) THEN RStrip(SubSeq(s, 1, Len(s) - 1)) ELSE s

\* str.strip()
Strip(s) == RStrip(LStrip(s))

RECURSIVE SplitOn(_, _)
\* s.split(sep) for a one-character separator
SplitOn(s, sep) ==
    IF ~Contains(s, sep) THEN <<s>>
    ELSE LET i == Find(s, sep)
         IN  <<SubSeq(s, 1, i - 1)>> \o SplitOn(From(s, i + 1), sep)

RECURSIVE ReplaceChar(_, _, _)
\* s.replace(a, b) for one-character a and b
ReplaceChar(s, a, b) ==
    IF s = "" THEN ""
    ELSE (IF At(s, 1) = a THEN b ELSE At(s, 1)) \o ReplaceChar(From(s, 2), a, b)

RECURSIVE DigitRunEnd(_, _)
\* the end (inclusive) of the maximal run of digits from i (what \d+ takes);
\* i - 1 when s[i] is no digit
DigitRunEnd(s, i) ==
    IF i <= Len(s) /\ IsDigit(At(s, i)) THEN DigitRunEnd(s, i + 1) ELSE i - 1

RECURSIVE SpaceRunEnd(_, _)
\* the end of the maximal run of whitespace from i (what \s* takes)
SpaceRunEnd(s, i) ==
    IF i <= Len(s) /\ IsSpace(At(s, i)) THEN SpaceRunEnd(s, i + 1) ELSE i - 1

RECURSIVE ColonSpaceRunEnd(_, _)
\* the end of the maximal run of ":" and whitespace from i (what [:\s]* takes)
ColonSpaceRunEnd(s, i) ==
    IF i <= Len(s) /\ (IsSpace(At(s, i)) \/ At(s, i) = ":")
    THEN ColonSpaceRunEnd(s, i + 1) ELSE i - 1

RECURSIVE WordEnd(_, _)
\* the end of the maximal run of non-whitespace from i
WordEnd(s, i) ==
    IF i <= Len(s) /\ ~IsSpace(At(s, i)) THEN WordEnd(s, i + 1) ELSE i - 1

RECURSIVE SplitWords(_)
\* s.split(): the maximal runs of non-whitespace characters
SplitWords(s) ==
    LET t == LStrip(s)
    IN  IF t = "" THEN <<>>
        ELSE LET e == WordEnd(t, 1)
             IN  <<SubSeq(t, 1, e)>> \o SplitWords(From(t, e + 1))

RECURSIVE ParseInt(_)
\* int(s) for a non-empty string of digits
ParseInt(s) ==
    IF s = "" THEN 0
    ELSE 10 * ParseInt(SubSeq(s, 1, Len(s) - 1)) + DigitVal(At(s, Len(s)))

(***************************************************************************)
(* extract_quantity, extract_note (process.py 60-110)                      *)
(***************************************************************************)

\* the unit alternation x|cái|chai|gói|hộp|thùng|lon|kg|g|ml|l, in its order
QuantityUnits ==
    <<"x", "cái", "chai", "gói", "hộp", "thùng", "lon", "kg", "g", "ml", "l">>

\* the quantity label of the second pattern
QuantityLabel == "số lượng"

\* the alternation note|ghi chú|lưu ý of the first note pattern
NoteLabels == <<"note", "ghi chú", "lưu ý">>

\* the alternation of the second note pattern
RequestLabels == <<"yêu cầu">>

\* an alternation matches at i (re.IGNORECASE): low is the lower-cased text
AltMatchesAt(low, i, alts) == \E k \in 1..Len(alts) : StartsAt(low, i, alts[k])

\* the alternative an alternation takes at i: the first in its order
AltTaken(low, i, alts) ==
    alts[CHOOSE k \in 1..Len(alts) :
             StartsAt(low, i, alts[k]) /\ \A j \in 1..(k - 1) : ~StartsAt(low, i, alts[j])]

\* (\d+)\s*(?:x|cái|...) matches starting at i
UnitPatternAt(low, i) ==
    /\ i <= Len(low)
    /\ IsDigit(At(low, i))
    /\ AltMatchesAt(low, SpaceRunEnd(low, DigitRunEnd(low, i) + 1) + 1, QuantityUnits)

\* the last position of the match of the unit pattern that starts at i
UnitPatternEnd(low, i) ==
    LET u == SpaceRunEnd(low, DigitRunEnd(low, i) + 1) + 1
    IN  u + Len(AltTaken(low, u, QuantityUnits)) - 1

\* số lượng[:\s]*(\d+) matches starting at i
LabelPatternAt(low, i) ==
    /\ StartsAt(low, i, QuantityLabel)
    /\ LET d == ColonSpaceRunEnd(low, i + Len(QuantityLabel)) + 1
       IN  d <= Len(low) /\ IsDigit(At(low, d))

\* \b(\d+)\b matches starting at i
StandalonePatternAt(low, i) ==
    /\ i <= Len(low)
    /\ IsDigit(At(low, i))
    /\ (i = 1 \/ ~IsWordChar(At(low, i - 1)))
    /\ LET e == DigitRunEnd(low, i)
       IN  e = Len(low) \/ ~IsWordChar(At(low, e + 1))

\* re.sub(r'^\d+\.\s*', '', text), e the end of the leading digits
StripListNumberAfter(text, e) ==
    IF e >= 1 /\ e < Len(text) /\ At(text, e + 1) = "."
    THEN From(text, SpaceRunEnd(text, e + 2) + 1)
    ELSE text

StripListNumber(text) == StripListNumberAfter(text, DigitRunEnd(text, 1))

\* the first of the positions where a pattern matches, 0 if there is none
\* (re.search scans left to right)
FirstPos(S) == IF S = {} THEN 0 ELSE CHOOSE i \in S : \A j \in S : i <= j

\* where re.search finds each of the three quantity patterns, 0 if nowhere
FirstUnitPattern(low) ==
    FirstPos({i \in 1..Len(low) : UnitPatternAt(low, i)})

FirstLabelPattern(low) ==
    FirstPos({i \in 1..Len(low) : LabelPatternAt(low, i)})

FirstStandalonePattern(low) ==
    FirstPos({i \in 1..Len(low) : StandalonePatternAt(low, i)})

\* int(match.group(1)) for the digits that start at i
DigitsAt(low, i) == ParseInt(SubSeq(low, i, DigitRunEnd(low, i)))

\* lines 80-86: the first pattern that matches decides; u, l, b are where the
\* patterns match
QuantityOf(low, u, l, b) ==
    IF u # 0 THEN DigitsAt(low, u)
    ELSE IF l # 0 THEN DigitsAt(low, ColonSpaceRunEnd(low, l + Len(QuantityLabel)) + 1)
    ELSE IF b # 0 THEN DigitsAt(low, b)
    ELSE 1

QuantityIn(low) ==
    QuantityOf(low, FirstUnitPattern(low), FirstLabelPattern(low),
               FirstStandalonePattern(low))

extract_quantity(text) == QuantityIn(Lower(StripListNumber(text)))

\* the text up to the first newline: "." matches everything but a newline
FirstLine(t) == IF Find(t, "\n") = 0 THEN t ELSE SubSeq(t, 1, Find(t, "\n") - 1)

\* match.group(1).strip() for a label of alts found at i: what (.*) takes
\* after the label and [:\s]*
NoteAfter(text, low, i, alts) ==
    Strip(FirstLine(From(text,
        ColonSpaceRunEnd(low, i + Len(AltTaken(low, i, alts))) + 1)))

FirstLabel(low, alts) ==
    FirstPos({i \in 1..Len(low) : AltMatchesAt(low, i, alts)})

\* lines 105-110: a is where a note label is found, r where a request label
NoteOf(text, low, a, r) ==
    IF a # 0 THEN NoteAfter(text, low, a, NoteLabels)
    ELSE IF r # 0 THEN NoteAfter(text, low, r, RequestLabels)
    ELSE ""

NoteIn(text, low) ==
    NoteOf(text, low, FirstLabel(low, NoteLabels), FirstLabel(low, RequestLabels))

extract_note(text) == NoteIn(text, Lower(text))

(***************************************************************************)
(* The catalog and the name index (process.py 10-57)                       *)
(*                                                                         *)
(* product_data is a dict: here the sequence of its items, in iteration    *)
(* order, each [id, info] with info a function from the keys the entry has *)
(* (a subset of 1st_name, 2nd_name, 3rd_name) to their values.  name_to_id *)
(* is a dict too: the sequence of its [name, id] items in insertion order. *)
(***************************************************************************)

\* Python's None; no id and no name of the catalogs is this string
None == "None"

\* key in d, for a dict given as its sequence of items
HasId(product_data, id) == \E k \in 1..Len(product_data) : product_data[k].id = id

\* d[key]
InfoOf(product_data, id) ==
    product_data[CHOOSE k \in 1..Len(product_data) : product_data[k].id = id].info

\* 'key' in product_info and product_info['key']
HasName(info, name_key) == name_key \in DOMAIN info /\ info[name_key] # ""

\* DictSet with the first writer of a name kept: an existing key is not
\* overwritten
DictSetKeepFirst(d, name, id) ==
    IF \E k \in 1..Len(d) : d[k].name = name
    THEN d
    ELSE Append(d, [name |-> name, id |-> id])

\* d[name] = id: a new key goes last, an existing key keeps its place
DictSet(d, name, id) ==
    IF \E k \in 1..Len(d) : d[k].name = name
    THEN [k \in 1..Len(d) |-> IF d[k].name = name THEN [name |-> name, id |-> id] ELSE d[k]]
    ELSE Append(d, [name |-> name, id |-> id])

NameKeys == <<"1st_name", "2nd_name", "3rd_name">>

RECURSIVE AddNamesNoLower(_, _, _, _)
\* AddNames with the names registered as written, not lower-cased
AddNamesNoLower(d, id, info, k) ==
    IF k > Len(NameKeys) THEN d
    ELSE AddNamesNoLower(IF HasName(info, NameKeys[k])
                         THEN DictSet(d, info[NameKeys[k]], id)
                         ELSE d,
                         id, info, k + 1)

RECURSIVE AddNames(_, _, _, _)
\* the body of the loop over one product: its names from the k-th name key on
AddNames(d, id, info, k) ==
    IF k > Len(NameKeys) THEN d
    ELSE AddNames(IF HasName(info, NameKeys[k])
                  THEN DictSet(d, Lower(info[NameKeys[k]]), id)
                  ELSE d,
                  id, info, k + 1)

RECURSIVE MappingFrom(_, _, _)
\* the loop over product_data.items(), from the k-th item on
MappingFrom(d, product_data, k) ==
    IF k > Len(product_data) THEN d
    ELSE MappingFrom(AddNames(d, product_data[k].id, product_data[k].info, 1),
                     product_data, k + 1)

create_product_name_to_id_mapping(product_data) == MappingFrom(<<>>, product_data, 1)

(***************************************************************************)
(* find_best_product_match (process.py 113-302)                            *)
(***************************************************************************)

\* urllib.parse.unquote on the escapes of the model's alphabet; a "%" that
\* starts no escape stays
UnquoteTable == << <<"%20", " ">>, <<"%2C", ",">>, <<"%3A", ":">>, <<"%25", "%">> >>

\* the escape s starts with, 0 if none
EscapeAt(s) ==
    IF \E k \in 1..Len(UnquoteTable) : StartsAt(s, 1, UnquoteTable[k][1])
    THEN CHOOSE k \in 1..Len(UnquoteTable) : StartsAt(s, 1, UnquoteTable[k][1])
    ELSE 0

RECURSIVE Unquote(_)
Unquote(s) ==
    IF s = "" THEN ""
    ELSE IF EscapeAt(s) # 0 THEN UnquoteTable[EscapeAt(s)][2] \o Unquote(From(s, 4))
    ELSE At(s, 1) \o Unquote(From(s, 2))

\* special_product_matches, in the dict's order (the letter d-with-stroke of
\* the second text, U+0111, is written U+00F0 here)
special_product_matches ==
    << [text |-> "trà gừng cozy", id |-> "128661", name |-> "trà gừng cozy (20 gói)"],
       [text |-> "sữa ðậu nành fami", id |-> "121827", name |-> "sữa ðậu nành fami (200ml)"],
       [text |-> "chà là sấy khô", id |-> "121830", name |-> "chà là sấy khô (600g)"] >>

important_brands == <<"cozy", "fami", "hq", "cp">>

special_identifiers == <<"cozy", "fami", "hq", "cp", "ml", "g", "kg", "cm", "l">>

\* a candidate a stage returns, or NoMatch
NoMatch == [product_id |-> None, product_name |-> None, stage |-> "none"]

Match(id, name, stage) == [product_id |-> id, product_name |-> name, stage |-> stage]

\* [x for x in seq if P(x)]
RECURSIVE FilterFrom(_, _, _)
FilterFrom(seq, k, keep) ==
    IF k > Len(seq) THEN <<>>
    ELSE (IF k \in keep THEN <<seq[k]>> ELSE <<>>) \o FilterFrom(seq, k + 1, keep)

\* Best with the last candidate of the highest score instead of the first
BestLast(cands) ==
    cands[CHOOSE k \in 1..Len(cands) :
              /\ \A j \in 1..Len(cands) : cands[j].score <= cands[k].score
              /\ \A j \in (k + 1)..Len(cands) : cands[j].score < cands[k].score]

\* cands.sort(key=score, reverse=True); cands[0]: the sort is stable, so the
\* first candidate with the highest score
Best(cands) ==
    cands[CHOOSE k \in 1..Len(cands) :
              /\ \A j \in 1..Len(cands) : cands[j].score <= cands[k].score
              /\ \A j \in 1..(k - 1) : cands[j].score < cands[k].score]

MatchOf(cand, stage) == Match(cand.id, cand.name, stage)

\* if cands: sort and return cands[0]
BestMatch(cands, stage) ==
    IF cands = <<>> THEN NoMatch ELSE MatchOf(Best(cands), stage)

Candidate(item, score) == [id |-> item.id, name |-> item.name, score |-> score]

\* SpecialCaseHit without the test of line 148: the override's id need not be
\* a key of the catalog
SpecialCaseHitAnyId(product_text_lower, product_data, k) ==
    Contains(product_text_lower, special_product_matches[k].text)

\* lines 145-149
SpecialCaseHit(product_text_lower, product_data, k) ==
    /\ Contains(product_text_lower, special_product_matches[k].text)
    /\ HasId(product_data, special_product_matches[k].id)

SpecialCaseStage(product_text_lower, product_data) ==
    IF \E k \in 1..Len(special_product_matches) :
           SpecialCaseHit(product_text_lower, product_data, k)
    THEN MatchOf(special_product_matches[
                     CHOOSE k \in 1..Len(special_product_matches) :
                         /\ SpecialCaseHit(product_text_lower, product_data, k)
                         /\ \A j \in 1..(k - 1) :
                                ~SpecialCaseHit(product_text_lower, product_data, j)],
                 "special")
    ELSE NoMatch

\* lines 152-154
ExactStage(product_text_lower, name_to_id) ==
    IF \E k \in 1..Len(name_to_id) : name_to_id[k].name = product_text_lower
    THEN MatchOf(name_to_id[CHOOSE k \in 1..Len(name_to_id) :
                                name_to_id[k].name = product_text_lower],
                 "exact")
    ELSE NoMatch

RECURSIVE CommonLen(_, _, _, _)
\* the length of the longest common run of a from i and b from j
CommonLen(a, i, b, j) ==
    IF i <= Len(a) /\ j <= Len(b) /\ At(a, i) = At(b, j)
    THEN 1 + CommonLen(a, i + 1, b, j + 1)
    ELSE 0

RunTable(a, b) == [i \in 1..Len(a) |-> [j \in 1..Len(b) |-> CommonLen(a, i, b, j)]]

Maximum(S) == IF S = {} THEN 0 ELSE CHOOSE n \in S : \A m \in S : m <= n

LongestRun(run) == Maximum({run[i][j] : i \in DOMAIN run, j \in 1..Len(run[1])})

\* the first i, and for it the first j, where a common run of that size starts
FirstStartA(run, size) ==
    CHOOSE i \in DOMAIN run :
        /\ \E j \in DOMAIN run[i] : run[i][j] = size
        /\ \A h \in 1..(i - 1) : \A j \in DOMAIN run[h] : run[h][j] # size

FirstStartB(row, size) ==
    CHOOSE j \in DOMAIN row : row[j] = size /\ \A h \in 1..(j - 1) : row[h] # size

Block(run, size, i) == [i |-> i, j |-> FirstStartB(run[i], size), size |-> size]

BlockOfSize(run, size) ==
    IF size = 0 THEN [i |-> 1, j |-> 1, size |-> 0]
    ELSE Block(run, size, FirstStartA(run, size))

LongestIn(run) == BlockOfSize(run, LongestRun(run))

\* SequenceMatcher.find_longest_match over all of non-empty a and b (no junk:
\* names are shorter than 200 characters): the longest common block, the
\* earliest of them in a and, of those, the earliest in b
LongestMatch(a, b) == LongestIn(RunTable(a, b))

RECURSIVE MatchingChars(_, _)

\* the block m and, recursively, the blocks left and right of it
BlocksAround(a, b, m) ==
    IF m.size = 0 THEN 0
    ELSE m.size
         + MatchingChars(SubSeq(a, 1, m.i - 1), SubSeq(b, 1, m.j - 1))
         + MatchingChars(From(a, m.i + m.size), From(b, m.j + m.size))

\* the sum of the sizes of SequenceMatcher.get_matching_blocks()
MatchingChars(a, b) ==
    IF a = "" \/ b = "" THEN 0 ELSE BlocksAround(a, b, LongestMatch(a, b))

\* SequenceMatcher(None, a, b).ratio() as the fraction num / den
Ratio(a, b) ==
    IF Len(a) + Len(b) = 0 THEN [num |-> 1, den |-> 1]
    ELSE [num |-> 2 * MatchingChars(a, b), den |-> Len(a) + Len(b)]

Ratios(product_text_lower, name_to_id) ==
    [k \in 1..Len(name_to_id) |-> Ratio(product_text_lower, name_to_id[k].name)]

\* if potential_matches[0][2] > 8, for the name k of the highest ratio
FuzzyAccept(name_to_id, r, k) ==
    IF 10 * r[k].num > 8 * r[k].den THEN MatchOf(name_to_id[k], "fuzzy") ELSE NoMatch

\* the first of the potential matches with the highest ratio
FuzzyBest(r, potential) ==
    CHOOSE k \in potential :
        /\ \A j \in potential : r[j].num * r[k].den <= r[k].num * r[j].den
        /\ \A j \in potential : j < k => r[j].num * r[k].den < r[k].num * r[j].den

FuzzyPick(name_to_id, r, potential) ==
    IF potential = {} THEN NoMatch
    ELSE FuzzyAccept(name_to_id, r, FuzzyBest(r, potential))

\* the names with similarity > 0.6
FuzzyPotential(r) == {k \in DOMAIN r : 10 * r[k].num > 6 * r[k].den}

FuzzyOf(name_to_id, r) == FuzzyPick(name_to_id, r, FuzzyPotential(r))

\* lines 164-175
FuzzyStage(product_text_lower, name_to_id) ==
    FuzzyOf(name_to_id, Ratios(product_text_lower, name_to_id))

\* ' '.join(words)
RECURSIVE JoinWords(_)
JoinWords(words) ==
    IF words = <<>> THEN ""
    ELSE IF Len(words) = 1 THEN words[1]
    ELSE words[1] \o " " \o JoinWords(Tail(words))

\* [w for w in words if w != brand]
WordsExcept(words, brand) ==
    FilterFrom(words, 1, {k \in 1..Len(words) : words[k] # brand})

\* line 196
ProductType(product_text_lower, brand) ==
    JoinWords(WordsExcept(SplitWords(product_text_lower), brand))

\* the words longer than 2 characters that are in the name
LongWordsIn(words, name) ==
    Cardinality({k \in 1..Len(words) : Len(words[k]) > 2 /\ Contains(name, words[k])})

\* BrandScoreOf without the 30 of line 203 for the whole product type
BrandScoreByWords(name, product_type) ==
    50 + 10 * LongWordsIn(SplitWords(product_type), name)

\* lines 199-208
BrandScoreOf(name, product_type) ==
    50 + IF Contains(name, product_type) THEN 30
         ELSE 10 * LongWordsIn(SplitWords(product_type), name)

BrandScore(product_text_lower, name, brand) ==
    BrandScoreOf(name, ProductType(product_text_lower, brand))

RECURSIVE BrandCandidates(_, _, _, _, _)
\* lines 191-210: the loop over names (from the k-th) and, within a name, over
\* the mentioned brands (from the b-th)
BrandCandidates(product_text_lower, name_to_id, mentioned_brands, k, b) ==
    IF k > Len(name_to_id) THEN <<>>
    ELSE IF b > Len(mentioned_brands)
    THEN BrandCandidates(product_text_lower, name_to_id, mentioned_brands, k + 1, 1)
    ELSE (IF Contains(name_to_id[k].name, mentioned_brands[b])
          THEN << Candidate(name_to_id[k],
                            BrandScore(product_text_lower, name_to_id[k].name,
                                       mentioned_brands[b])) >>
          ELSE <<>>)
         \o BrandCandidates(product_text_lower, name_to_id, mentioned_brands, k, b + 1)

\* line 188
MentionedBrands(product_text_lower) ==
    FilterFrom(important_brands, 1,
               {k \in 1..Len(important_brands) :
                    Contains(product_text_lower, important_brands[k])})

\* lines 184-215
BrandStage(product_text_lower, name_to_id) ==
    BestMatch(BrandCandidates(product_text_lower, name_to_id,
                              MentionedBrands(product_text_lower), 1, 1),
              "brand")

\* [w for w in words if len(w) >= 2]
WordsOfTwo(words) == FilterFrom(words, 1, {k \in 1..Len(words) : Len(words[k]) >= 2})

\* line 157
KeyWords(product_text_lower) == WordsOfTwo(SplitWords(product_text_lower))

\* AllKeyWordsIn with len(word) >= 2 as its filter
AllKeyWordsOfTwoIn(key_words, name) ==
    \A k \in 1..Len(key_words) : Len(key_words[k]) >= 2 => Contains(name, key_words[k])

\* all(word in name for word in key_words if len(word) > 2)
AllKeyWordsIn(key_words, name) ==
    \A k \in 1..Len(key_words) : Len(key_words[k]) > 2 => Contains(name, key_words[k])

\* lines 224-232
KeywordsScore(product_text_lower, name) ==
    20 + IF Contains(product_text_lower, "cozy") /\ Contains(name, "cozy") THEN 30 ELSE 0

RECURSIVE KeywordsCandidates(_, _, _, _)
\* lines 220-234, from the k-th name on
KeywordsCandidates(product_text_lower, key_words, name_to_id, k) ==
    IF k > Len(name_to_id) THEN <<>>
    ELSE (IF AllKeyWordsIn(key_words, name_to_id[k].name)
          THEN << Candidate(name_to_id[k],
                            KeywordsScore(product_text_lower, name_to_id[k].name)) >>
          ELSE <<>>)
         \o KeywordsCandidates(product_text_lower, key_words, name_to_id, k + 1)

\* lines 219-239
AllKeywordsStage(product_text_lower, name_to_id) ==
    BestMatch(KeywordsCandidates(product_text_lower, KeyWords(product_text_lower),
                                 name_to_id, 1),
              "keywords")

RECURSIVE OrderedWordPoints(_, _, _, _)

\* lines 271-278 for a key word found in the name at curr_pos
WordPointsAt(key_words, name, k, last_pos, curr_pos) ==
    IF curr_pos > last_pos
    THEN 3 + OrderedWordPoints(key_words, name, k + 1, curr_pos)
    ELSE 2 + OrderedWordPoints(key_words, name, k + 1, last_pos)

\* lines 266-278, from the k-th key word on, in halves: 2 for a word found in
\* the name and 1 more (the source's 0.5) when it is found right of the last
\* such word
OrderedWordPoints(key_words, name, k, last_pos) ==
    IF k > Len(key_words) THEN 0
    ELSE IF Len(key_words[k]) >= 2 /\ Contains(name, key_words[k])
    THEN WordPointsAt(key_words, name, k, last_pos, Find(name, key_words[k]) - 1)
    ELSE OrderedWordPoints(key_words, name, k + 1, last_pos)

\* lines 247-250
PhrasePoints(product_text_lower, name) ==
    IF Contains(name, product_text_lower) THEN 10
    ELSE IF Contains(product_text_lower, name) THEN 8
    ELSE 0

\* identifier in product_text_lower and identifier in name
SharedIdentifiers(product_text_lower, name) ==
    {k \in 1..Len(special_identifiers) :
         /\ Contains(product_text_lower, special_identifiers[k])
         /\ Contains(name, special_identifiers[k])}

IsBrand(identifier) ==
    \E b \in 1..Len(important_brands) : important_brands[b] = identifier

\* lines 255-262
IdentifierPoints(shared) ==
    15 * Cardinality({k \in shared : IsBrand(special_identifiers[k])})
    + 5 * Cardinality({k \in shared : ~IsBrand(special_identifiers[k])})

\* lines 243-288: the score for n key words, times 2 * max(1, n) so that the
\* halves and the match percentage (matching_words / n * 3) are integers
ScoreTimes(n, whole_points, half_points, matching_words) ==
    2 * n * whole_points + n * half_points + 6 * matching_words

GeneralScoreOf(product_text_lower, key_words, name) ==
    ScoreTimes(IF key_words = <<>> THEN 1 ELSE Len(key_words),
               PhrasePoints(product_text_lower, name)
               + IdentifierPoints(SharedIdentifiers(product_text_lower, name))
               + (IF AllKeyWordsIn(key_words, name) THEN 4 ELSE 0),
               OrderedWordPoints(key_words, name, 1, -1),
               LongWordsIn(key_words, name))

GeneralScore(product_text_lower, name) ==
    GeneralScoreOf(product_text_lower, KeyWords(product_text_lower), name)

\* if score > 0: matches.append(...)
Positive(scored) == FilterFrom(scored, 1, {k \in 1..Len(scored) : scored[k].score > 0})

GeneralScored(product_text_lower, name_to_id) ==
    [k \in 1..Len(name_to_id) |->
        Candidate(name_to_id[k], GeneralScore(product_text_lower, name_to_id[k].name))]

\* lines 242-297
GeneralStage(product_text_lower, name_to_id) ==
    BestMatch(Positive(GeneralScored(product_text_lower, name_to_id)), "general")

\* the first stage's match if it has one, else what the later stages give
OrElse(first, later) == IF first # NoMatch THEN first ELSE later

\* lines 126-131
Decoded(product_text) ==
    IF Contains(product_text, "%") THEN Unquote(product_text) ELSE product_text

\* MatchLower without the all-keywords stage of lines 217-239
MatchLowerNoKeywords(product_text_lower, name_to_id, product_data) ==
    OrElse(SpecialCaseStage(product_text_lower, product_data),
    OrElse(ExactStage(product_text_lower, name_to_id),
    OrElse(FuzzyStage(product_text_lower, name_to_id),
    OrElse(BrandStage(product_text_lower, name_to_id),
           GeneralStage(product_text_lower, name_to_id)))))

\* lines 145-302: the stages in the order the function tries them
MatchLower(product_text_lower, name_to_id, product_data) ==
    OrElse(SpecialCaseStage(product_text_lower, product_data),
    OrElse(ExactStage(product_text_lower, name_to_id),
    OrElse(FuzzyStage(product_text_lower, name_to_id),
    OrElse(BrandStage(product_text_lower, name_to_id),
    OrElse(AllKeywordsStage(product_text_lower, name_to_id),
           GeneralStage(product_text_lower, name_to_id))))))

\* MatchWithStage without the .strip() of line 134
MatchWithStageNoStrip(product_text, name_to_id, product_data) ==
    MatchLower(Lower(Decoded(product_text)), name_to_id, product_data)

\* the match with the stage that decided it
MatchWithStage(product_text, name_to_id, product_data) ==
    MatchLower(Strip(Lower(Decoded(product_text))), name_to_id, product_data)

MatchTuple(m) == <<m.product_id, m.product_name>>

\* the (product_id, product_name) tuple returned
find_best_product_match(product_text, name_to_id, product_data) ==
    MatchTuple(MatchWithStage(product_text, name_to_id, product_data))

(***************************************************************************)
(* load_product_data, process_order, process_order_resource                *)
(* (process.py 10-32, 305-383, 438-462)                                    *)
(***************************************************************************)

\* What memory_file/<store_id>.json holds: kind "absent" (no such file),
\* "invalid" (not JSON), "list" (JSON, but no mapping) or "dict" with the
\* catalog in items.
File(kind, items) == [kind |-> kind, items |-> items]

AbsentFile == File("absent", <<>>)

\* json.load of the file: the value returned, or the exception raised
LoadFile(f) ==
    IF f.kind = "absent" THEN [raised |-> "FileNotFoundError", value |-> f]
    ELSE IF f.kind = "invalid" THEN [raised |-> "ValueError", value |-> f]
    ELSE [raised |-> None, value |-> f]

load_product_data(files, store_id) == LoadFile(files[store_id])

RECURSIVE RemoveQuantityUnits(_)

\* the line without the match at i, and without the matches after it
RemoveUnitAt(line, low, i) ==
    IF i = 0 THEN line
    ELSE SubSeq(line, 1, i - 1)
         \o RemoveQuantityUnits(From(line, UnitPatternEnd(low, i) + 1))

RemoveUnitsIn(line, low) == RemoveUnitAt(line, low, FirstUnitPattern(low))

\* re.sub(r'\d+\s*(?:x|cái|...)', '', line, flags=re.IGNORECASE)
RemoveQuantityUnits(line) == RemoveUnitsIn(line, Lower(line))

\* the text before position i, all of it when i = 0
Before(text, i) == IF i = 0 THEN text ELSE SubSeq(text, 1, i - 1)

\* re.sub(r'(?:note|ghi chú|lưu ý|yêu cầu)[:\s]*.*', '', text, flags=re.IGNORECASE)
\* on one line: everything from the first label on goes
RemoveNote(text) == Before(text, FirstLabel(Lower(text), NoteLabels \o RequestLabels))

\* lines 360-362
CleanProductText(line) == Strip(RemoveNote(RemoveQuantityUnits(line)))

StripAll(parts) == [k \in 1..Len(parts) |-> Strip(parts[k])]

NonEmpty(parts) == FilterFrom(parts, 1, {k \in 1..Len(parts) : parts[k] # ""})

\* lines 334-337
SplitLines(message_text) ==
    NonEmpty(StripAll(SplitOn(ReplaceChar(message_text, ",", "\n"), "\n")))

\* the value process_order returns (the JSON document, before json.dumps):
\* kind "order" with order_items and the debug trace, kind "error" with the
\* error field and no trace, or kind "raised" when an exception escapes
OrderResult(order_items, lines, product_matches) ==
    [kind |-> "order", error |-> None, order_items |-> order_items,
     lines |-> lines, product_matches |-> product_matches]

ErrorResult(error) ==
    [kind |-> "error", error |-> error, order_items |-> <<>>,
     lines |-> <<>>, product_matches |-> <<>>]

Raised(exception) ==
    [kind |-> "raised", error |-> exception, order_items |-> <<>>,
     lines |-> <<>>, product_matches |-> <<>>]

\* lines 349-370: the trace record of one line, m the matcher's tuple
LineDebugOf(line, product_text, m) ==
    [original_line |-> line,
     quantity |-> extract_quantity(line),
     note |-> extract_note(line),
     cleaned_product_text |-> product_text,
     matched_product_id |-> m[1],
     matched_product_name |-> m[2]]

LineDebugFor(line, product_text, name_to_id, product_data) ==
    LineDebugOf(line, product_text,
                find_best_product_match(product_text, name_to_id, product_data))

LineDebug(line, name_to_id, product_data) ==
    LineDebugFor(line, CleanProductText(line), name_to_id, product_data)

\* OrderItem with the matched name (the index key or the special-case string)
\* as product_name instead of the catalog's 1st_name
OrderItemMatchedName(line_debug, product_info) ==
    [product_name |-> line_debug.matched_product_name,
     product_id |-> line_debug.matched_product_id,
     quantity |-> line_debug.quantity,
     note |-> line_debug.note]

\* lines 373-378
OrderItem(line_debug, product_info) ==
    [product_name |-> product_info["1st_name"],
     product_id |-> line_debug.matched_product_id,
     quantity |-> line_debug.quantity,
     note |-> line_debug.note]

RECURSIVE ProcessLines(_, _, _, _, _, _)

\* lines 370-378: the end of the loop body for the k-th line, then the rest
AfterMatch(lines, k, name_to_id, product_data, order_items, product_matches, line_debug) ==
    IF line_debug.matched_product_id \in {None, ""}       \* if product_id: is false
    THEN ProcessLines(lines, k + 1, name_to_id, product_data, order_items,
                      Append(product_matches, line_debug))
    ELSE IF "1st_name" \notin DOMAIN InfoOf(product_data, line_debug.matched_product_id)
    THEN Raised("KeyError")
    ELSE ProcessLines(lines, k + 1, name_to_id, product_data,
                      Append(order_items,
                             OrderItem(line_debug,
                                       InfoOf(product_data, line_debug.matched_product_id))),
                      Append(product_matches, line_debug))

\* lines 344-383: the loop from the k-th line on, then the return
ProcessLines(lines, k, name_to_id, product_data, order_items, product_matches) ==
    IF k > Len(lines) THEN OrderResult(order_items, lines, product_matches)
    ELSE IF Len(lines[k]) < 3
    THEN ProcessLines(lines, k + 1, name_to_id, product_data, order_items, product_matches)
    ELSE AfterMatch(lines, k, name_to_id, product_data, order_items, product_matches,
                    LineDebug(lines[k], name_to_id, product_data))

\* lines 329-383, once the catalog is loaded
ProcessWith(product_data, message_text) ==
    ProcessLines(SplitLines(message_text), 1,
                 create_product_name_to_id_mapping(product_data),
                 product_data, <<>>, <<>>)

\* ProcessLoaded without the product_data.keys() call inside the try: a value
\* that is no dict reaches create_product_name_to_id_mapping, whose .items()
\* raises outside the try
ProcessLoadedNoKeysCall(loaded, message_text) ==
    IF loaded.raised # None THEN ErrorResult("Failed to load product data")
    ELSE IF loaded.value.kind # "dict" THEN Raised("AttributeError")
    ELSE ProcessWith(loaded.value.items, message_text)

\* lines 319-326: product_data.keys() of a value that is no dict raises inside
\* the try as well
ProcessLoaded(loaded, message_text) ==
    IF loaded.raised # None THEN ErrorResult("Failed to load product data")
    ELSE IF loaded.value.kind # "dict" THEN ErrorResult("Failed to load product data")
    ELSE ProcessWith(loaded.value.items, message_text)

process_order(files, message_text, store_id) ==
    ProcessLoaded(load_product_data(files, store_id), message_text)

\* lines 457-462: an exception becomes an error document
Caught(r) == IF r.kind = "raised" THEN ErrorResult(r.error) ELSE r

process_order_resource(files, message, store_id) ==
    Caught(process_order(files, Unquote(message), store_id))

(***************************************************************************)
(* The state: the catalog files under memory_file/, the call being served  *)
(* and what it returned.                                                   *)
(***************************************************************************)
VARIABLES memory_file, call, result

\* The state of the servers that learn and search: the files they keep next to
\* their modules, the module global product_name_to_id of deployment.py, the
\* invocations in progress (where each is and its locals) and the requests
\* served so far.
VARIABLES files, product_name_to_id, frames, history

server == <<files, product_name_to_id, frames, history>>

vars == <<memory_file, call, result, files, product_name_to_id, frames, history>>

\* no learning or searching server runs
ServerIdle ==
    /\ files = <<>>
    /\ product_name_to_id = <<>>
    /\ frames = <<>>
    /\ history = <<>>

NoCall == [op |-> "none"]

NoResult == [kind |-> "none"]

\* --- bounds ---

\* the segments of a message
MaxSegments == 2

\* the products of a catalog given to create_product_name_to_id_mapping
MaxProducts == 3

\* the pieces of a text given to extract_quantity
MaxPieces == 4

\* --- inputs ---

StoreIds == {"5341", "9999"}

Info1(n1) == ("1st_name" :> n1)

Product(id, info) == [id |-> id, info |-> info]

\* the products the catalog files are made of, in file order; the second has
\* no 1st_name key, the last an empty one
FileProducts ==
    << Product("1", Info1("Fami Soy Milk") @@ ("2nd_name" :> "Soy Milk")),
       Product("7", ("2nd_name" :> "Green Tea")),
       Product("128661", Info1("Trà Gừng Cozy (20 gói)") @@ ("2nd_name" :> "trà gừng cozy")),
       Product("2", Info1("") @@ ("3rd_name" :> "Trà Gừng Cozy")) >>

\* every catalog that keeps some of FileProducts, in their order
Catalogs ==
    {FilterFrom(FileProducts, 1, keep) : keep \in SUBSET (1..Len(FileProducts))}

Files ==
    {AbsentFile, File("invalid", <<>>), File("list", <<>>)}
    \cup {File("dict", c) : c \in Catalogs}

\* injective sequences of at most n elements of S
RECURSIVE SeqsUpTo(_, _)
SeqsUpTo(S, n) ==
    IF n = 0 THEN {<<>>}
    ELSE LET shorter == SeqsUpTo(S, n - 1)
         IN  shorter \cup {Append(q, x) : q \in {r \in shorter : Len(r) = n - 1},
                                          x \in S}

Injective(q) == \A i, j \in 1..Len(q) : i # j => q[i] # q[j]

RECURSIVE JoinWith(_, _)
JoinWith(parts, sep) ==
    IF parts = <<>> THEN ""
    ELSE IF Len(parts) = 1 THEN parts[1]
    ELSE parts[1] \o sep \o JoinWith(Tail(parts), sep)

Segments ==
    {"2 chai Fami Soy Milk", "note: cold", "bia", "green tea", "ab",
     "3x trà gừng cozy ghi chú: nóng", "0 lon soy milk"}

\* the messages: up to MaxSegments different segments, comma-separated
Messages ==
    {JoinWith(q, ", ") : q \in {r \in SeqsUpTo(Segments, MaxSegments) : Injective(r)}}

\* the percent-encoded messages the resource is called with
ResourceMessages ==
    {"2%20chai%20Fami%20Soy%20Milk%2C%20note%3A%20cold", "green%20tea%2Cbia",
     "bia%2C3x%20trà%20gừng%20cozy", "100%25 bia", "fami%2520milk"}

Phrases ==
    {"Fami Soy Milk", " trà gừng cozy ", "fami soy milks", "fami", "soy milk", "",
     "green", "bia", "tea xanh", "Fami%20Soy%20Milk", "cozy gừng", "Green Tea",
     "5 fami milk"}

(***************************************************************************)
(* The order service: one call is served from the files as they are        *)
(***************************************************************************)
Init ==
    /\ memory_file \in {[s \in StoreIds |-> IF s = "5341" THEN f ELSE AbsentFile] : f \in Files}
    /\ call = NoCall
    /\ result = NoResult
    /\ ServerIdle

ProcessOrder(message_text, store_id) ==
    /\ call = NoCall
    /\ call' = [op |-> "process_order", message |-> message_text, store_id |-> store_id]
    /\ result' = process_order(memory_file, message_text, store_id)
    /\ UNCHANGED <<memory_file, server>>

ProcessOrderResource(message, store_id) ==
    /\ call = NoCall
    /\ call' = [op |-> "process_order_resource", message |-> message, store_id |-> store_id]
    /\ result' = process_order_resource(memory_file, message, store_id)
    /\ UNCHANGED <<memory_file, server>>

\* what the matcher returns for the catalog, with the stage that decided
MatchResult(product_text, name_to_id, product_data) ==
    [kind |-> "match",
     value |-> find_best_product_match(product_text, name_to_id, product_data),
     stage |-> MatchWithStage(product_text, name_to_id, product_data).stage]

\* the matcher on the catalog of store 5341 and its index
FindBestProductMatch(product_text) ==
    /\ call = NoCall
    /\ memory_file["5341"].kind = "dict"
    /\ call' = [op |-> "find_best_product_match", product_text |-> product_text]
    /\ result' = MatchResult(product_text,
                             create_product_name_to_id_mapping(memory_file["5341"].items),
                             memory_file["5341"].items)
    /\ UNCHANGED <<memory_file, server>>

Next ==
    \/ \E m \in Messages, s \in StoreIds : ProcessOrder(m, s)
    \/ \E m \in ResourceMessages, s \in StoreIds : ProcessOrderResource(m, s)
    \/ \E t \in Phrases : FindBestProductMatch(t)

Spec == Init /\ [][Next]_vars

(***************************************************************************)
(* create_product_name_to_id_mapping on its own: the catalog is drawn, the *)
(* index is built                                                          *)
(***************************************************************************)

\* the products the catalogs are made of: names that collide once
\* case-folded, within a product and across products, a product without
\* 1st_name and one whose 1st_name is empty
IndexProducts ==
    { Product("1", Info1("Ginger Tea") @@ ("2nd_name" :> "Tra Gung")),
      Product("2", Info1("GINGER TEA") @@ ("3rd_name" :> "tra gung")),
      Product("7", ("2nd_name" :> "Green Tea")),
      Product("8", Info1("") @@ ("2nd_name" :> "Ginger tea") @@ ("3rd_name" :> "")),
      Product("9", Info1("Soy Milk") @@ ("2nd_name" :> "soy milk") @@ ("3rd_name" :> "SOY MILK")) }

\* the catalogs of at most MaxProducts of them, in every order
IndexCatalogs == {c \in SeqsUpTo(IndexProducts, MaxProducts) : Injective(c)}

InitIndex ==
    /\ memory_file = [s \in StoreIds |-> AbsentFile]
    /\ call \in {[op |-> "create_product_name_to_id_mapping", product_data |-> c] :
                    c \in IndexCatalogs}
    /\ result = NoResult
    /\ ServerIdle

CreateMapping ==
    /\ call.op = "create_product_name_to_id_mapping"
    /\ result = NoResult
    /\ result' = [kind |-> "index",
                  value |-> create_product_name_to_id_mapping(call.product_data)]
    /\ UNCHANGED <<memory_file, call, server>>

NextIndex == CreateMapping

SpecIndex == InitIndex /\ [][NextIndex]_vars

(***************************************************************************)
(* extract_quantity on its own: the text is drawn, the quantity extracted  *)
(***************************************************************************)

QuantityPieces == {"0", "7", " ", "x", "a", ".", ":", "số lượng"}

\* the texts of at most MaxPieces pieces
QuantityTexts == {JoinWith(q, "") : q \in SeqsUpTo(QuantityPieces, MaxPieces)}

InitQuantity ==
    /\ memory_file = [s \in StoreIds |-> AbsentFile]
    /\ call \in {[op |-> "extract_quantity", text |-> t] : t \in QuantityTexts}
    /\ result = NoResult
    /\ ServerIdle

ExtractQuantity ==
    /\ call.op = "extract_quantity"
    /\ result = NoResult
    /\ result' = [kind |-> "quantity", value |-> extract_quantity(call.text)]
    /\ UNCHANGED <<memory_file, call, server>>

NextQuantity == ExtractQuantity

SpecQuantity == InitQuantity /\ [][NextQuantity]_vars

(***************************************************************************)
(* Properties                                                              *)
(***************************************************************************)

OrderOps == {"process_order", "process_order_resource"}

\* an order call whose catalog loaded
CatalogLoaded == call.op \in OrderOps /\ memory_file[call.store_id].kind = "dict"

\* the catalog and the index of the order call
CallCatalog == memory_file[call.store_id].items

CallIndex == create_product_name_to_id_mapping(CallCatalog)

\* the message process_order splits: the resource decodes it first
CallMessage ==
    IF call.op = "process_order_resource" THEN Unquote(call.message) ELSE call.message

\* the retained segments of a message: comma/newline separated, trimmed, of
\* at least 3 characters
Retained(message_text) ==
    LET lines == SplitLines(message_text)
    IN  FilterFrom(lines, 1, {k \in 1..Len(lines) : Len(lines[k]) >= 3})

\* the matcher's answer for the phrase of a segment
SegmentMatch(segment) == MatchWithStage(CleanProductText(segment), CallIndex, CallCatalog)

HasKey(name_to_id, name) == \E k \in 1..Len(name_to_id) : name_to_id[k].name = name

KeyId(name_to_id, name) ==
    name_to_id[CHOOSE k \in 1..Len(name_to_id) : name_to_id[k].name = name].id

\* C1: once the catalog has loaded, process_order (called directly or through
\* the resource) returns order_items and a trace for every message and every
\* catalog, catalogs whose entries lack a primary name included: no line
\* makes it raise or drop the lines resolved for the other lines.
C1_AlwaysOrderAndTrace == CatalogLoaded => result.kind = "order"

\* C2: extract_quantity returns an integer >= 1 for every line, and so every
\* entry of order_items has quantity >= 1.
C2_QuantityAtLeastOne ==
    /\ call.op = "extract_quantity" /\ result.kind = "quantity" => result.value >= 1
    /\ call.op \in OrderOps =>
           \A k \in 1..Len(result.order_items) : result.order_items[k].quantity >= 1

\* the items "<n> <unit> <product name>" and the notes ", <label>: <text>" of
\* the messages C3 is about, with the quantity, product and note they state
C3Items == {[text |-> "2 chai Fami Soy Milk", n |-> 2, id |-> "1"]}

C3Notes == {[text |-> "note: cold", note |-> "cold"]}

\* C3: a message of one item "<n> <unit> <product name>" followed by
\* ", <note label>: <text>", the product being in the catalog, yields exactly
\* one order line, with quantity n, note <text> and the product's id.
C3_ItemWithNoteIsOneLine ==
    \A it \in C3Items, nt \in C3Notes :
        ( /\ call.op = "process_order"
          /\ call.message = it.text \o ", " \o nt.text
          /\ CatalogLoaded
          /\ HasId(CallCatalog, it.id) )
        => /\ result.kind = "order"
           /\ Len(result.order_items) = 1
           /\ result.order_items[1].product_id = it.id
           /\ result.order_items[1].quantity = it.n
           /\ result.order_items[1].note = nt.note

\* the order lines C4 expects: one per retained segment whose phrase resolved,
\* in the segments' order, with the segment's own quantity and note
ExpectedItems(message_text) ==
    LET segs == Retained(message_text)
        matched == FilterFrom(segs, 1,
                       {k \in 1..Len(segs) : SegmentMatch(segs[k]).product_id # None})
    IN  [k \in 1..Len(matched) |->
            [product_id |-> SegmentMatch(matched[k]).product_id,
             quantity |-> extract_quantity(matched[k]),
             note |-> extract_note(matched[k])]]

ItemFields(order_items) ==
    [k \in 1..Len(order_items) |->
        [product_id |-> order_items[k].product_id,
         quantity |-> order_items[k].quantity,
         note |-> order_items[k].note]]

\* C4: order_items is exactly the subsequence of the retained segments whose
\* phrase resolved to a product: one line per matched segment, none for any
\* other, in the original order, each with its own segment's quantity and note.
C4_ItemsAreTheMatchedSegments ==
    CatalogLoaded => ItemFields(result.order_items) = ExpectedItems(CallMessage)

\* C4 for the calls in which no line raises
C4_WhenNothingRaises ==
    CatalogLoaded /\ result.kind = "order"
    => ItemFields(result.order_items) = ExpectedItems(CallMessage)

\* every retained segment has its trace record, and an unmatched one has
\* matched_product_id null
TraceCoversSegments(segs) ==
    /\ Len(result.product_matches) = Len(segs)
    /\ \A k \in 1..Len(segs) :
           /\ result.product_matches[k].original_line = segs[k]
           /\ SegmentMatch(segs[k]).stage = "none" =>
                  /\ find_best_product_match(CleanProductText(segs[k]), CallIndex,
                                             CallCatalog) = <<None, None>>
                  /\ result.product_matches[k].matched_product_id = None
    /\ Len(result.order_items) =
           Cardinality({k \in 1..Len(segs) : SegmentMatch(segs[k]).stage # "none"})

\* C5: every retained segment produces exactly one trace record, matched or
\* not; when no stage yields a candidate the matcher returns (None, None),
\* the record has matched_product_id null and the segment adds no order line.
C5_EverySegmentIsTraced == CatalogLoaded => TraceCoversSegments(Retained(CallMessage))

\* C5 for the calls in which no line raises
C5_WhenNothingRaises ==
    CatalogLoaded /\ result.kind = "order" => TraceCoversSegments(Retained(CallMessage))

\* C6: if loading the catalog fails (no file for the store, undecodable data,
\* data that is no mapping) the result has an error field and an empty
\* order_items, nothing was segmented or matched, and nothing is raised.
C6_LoadFailureIsAnErrorResult ==
    call.op \in OrderOps /\ memory_file[call.store_id].kind # "dict"
    => /\ result.kind = "error"
       /\ result.error # None
       /\ result.order_items = <<>>
       /\ result.lines = <<>>
       /\ result.product_matches = <<>>

\* a call on a file that holds JSON but no mapping ended as an error result
C6_Witness ==
    /\ call.op \in OrderOps
    /\ memory_file[call.store_id].kind = "list"
    /\ result.kind = "error"

\* a special-case override applies to the phrase: it contains the override's
\* text and the override's id is a key of the catalog
OverrideApplies(phrase, product_data) ==
    \E k \in 1..Len(special_product_matches) :
        /\ Contains(phrase, special_product_matches[k].text)
        /\ HasId(product_data, special_product_matches[k].id)

MatcherCatalog == memory_file["5341"].items

MatcherIndex == create_product_name_to_id_mapping(MatcherCatalog)

\* C7 as claimed: whenever the case-folded, trimmed phrase is a key of the
\* index, the matcher returns the id the key maps to, decided by the
\* exact-match stage.
C7_ExactKeyAlwaysWins ==
    call.op = "find_best_product_match"
    => LET phrase == Strip(Lower(call.product_text))
       IN  HasKey(MatcherIndex, phrase)
           => /\ result.value[1] = KeyId(MatcherIndex, phrase)
              /\ result.stage \notin {"fuzzy", "brand", "keywords", "general", "none"}

\* C7 as amended: whenever the percent-decoded, case-folded, trimmed phrase is
\* a key of the index, the matcher returns the override's id, from the
\* special-case stage, if a special-case override applies to the phrase, and
\* otherwise the key and the id the key maps to, from the exact-match stage;
\* never a candidate of the similarity, brand, all-keywords or general stage.
C7_ExactKeyWinsUnlessOverridden ==
    call.op = "find_best_product_match"
    => LET phrase == Strip(Lower(Decoded(call.product_text)))
       IN  HasKey(MatcherIndex, phrase)
           => IF OverrideApplies(phrase, MatcherCatalog)
              THEN /\ result.stage = "special"
                   /\ \E k \in 1..Len(special_product_matches) :
                          /\ Contains(phrase, special_product_matches[k].text)
                          /\ result.value[1] = special_product_matches[k].id
              ELSE /\ result.stage = "exact"
                   /\ result.value = <<KeyId(MatcherIndex, phrase), phrase>>

\* a phrase that needed folding and trimming was a key and the exact-match
\* stage returned the key's id
C7_Witness ==
    /\ call.op = "find_best_product_match"
    /\ Strip(Lower(call.product_text)) # call.product_text
    /\ HasKey(MatcherIndex, Strip(Lower(call.product_text)))
    /\ ~OverrideApplies(Strip(Lower(call.product_text)), MatcherCatalog)
    /\ result.stage = "exact"
    /\ result.value[1] = KeyId(MatcherIndex, Strip(Lower(call.product_text)))

\* the non-empty names of a catalog entry, case-folded
FoldedNames(product_info) ==
    {Lower(product_info[f]) : f \in {g \in DOMAIN product_info : product_info[g] # ""}}

\* the last entry of the catalog that has the name among its folded names
LastWriter(product_data, name) ==
    CHOOSE k \in 1..Len(product_data) :
        /\ name \in FoldedNames(product_data[k].info)
        /\ \A j \in (k + 1)..Len(product_data) : name \notin FoldedNames(product_data[j].info)

HasPrimaryName(product_info) ==
    "1st_name" \in DOMAIN product_info /\ product_info["1st_name"] # ""

\* C8 as claimed: for every entry with a non-empty primary name, the index
\* maps the case-folded primary name to that entry's own id.
C8_PrimaryNameMapsToOwnId ==
    result.kind = "index"
    => \A k \in 1..Len(call.product_data) :
           HasPrimaryName(call.product_data[k].info)
           => LET name == Lower(call.product_data[k].info["1st_name"])
              IN  /\ HasKey(result.value, name)
                  /\ KeyId(result.value, name) = call.product_data[k].id

\* C8 as amended: for every entry with a non-empty primary name, the
\* case-folded primary name is a key of the index, and it maps to the id of
\* the last entry of the catalog that has a name (primary, 2nd or 3rd) with
\* that case-folded form: the entry's own id when no later entry has one.
C8_PrimaryNameMapsToLastWriter ==
    result.kind = "index"
    => \A k \in 1..Len(call.product_data) :
           HasPrimaryName(call.product_data[k].info)
           => LET name == Lower(call.product_data[k].info["1st_name"])
              IN  /\ HasKey(result.value, name)
                  /\ KeyId(result.value, name) =
                         call.product_data[LastWriter(call.product_data, name)].id
                  /\ (\A j \in (k + 1)..Len(call.product_data) :
                          name \notin FoldedNames(call.product_data[j].info))
                     => KeyId(result.value, name) = call.product_data[k].id

\* an index was built in which one primary name, not in folded form, maps
\* to its own entry and another to a later entry
C8_Witness ==
    /\ result.kind = "index"
    /\ \E k \in 1..Len(call.product_data) :
           /\ HasPrimaryName(call.product_data[k].info)
           /\ Lower(call.product_data[k].info["1st_name"]) # call.product_data[k].info["1st_name"]
           /\ KeyId(result.value, Lower(call.product_data[k].info["1st_name"]))
                  = call.product_data[k].id
    /\ \E k \in 1..Len(call.product_data) :
           /\ HasPrimaryName(call.product_data[k].info)
           /\ KeyId(result.value, Lower(call.product_data[k].info["1st_name"]))
                  # call.product_data[k].id

\* C9: the keys of the index are exactly the case-folded non-empty names
\* (primary, 2nd, 3rd) of all entries, each key once, and each key maps to the
\* id of its last writer, writes being made in catalog order.
C9_KeysAreFoldedNamesOfLastWriter ==
    result.kind = "index"
    => /\ {result.value[k].name : k \in 1..Len(result.value)} =
              UNION {FoldedNames(call.product_data[k].info) : k \in 1..Len(call.product_data)}
       /\ \A j, k \in 1..Len(result.value) :
              result.value[j].name = result.value[k].name => j = k
       /\ \A k \in 1..Len(result.value) :
              result.value[k].id =
                  call.product_data[LastWriter(call.product_data, result.value[k].name)].id

\* an index was built from a catalog in which two entries wrote the same key
C9_Witness ==
    /\ result.kind = "index"
    /\ \E j, k \in 1..Len(call.product_data) :
           /\ j < k
           /\ FoldedNames(call.product_data[j].info)
                  \cap FoldedNames(call.product_data[k].info) # {}
    /\ \E k \in 1..Len(call.product_data) :
           Cardinality(FoldedNames(call.product_data[k].info))
               < Cardinality({f \in DOMAIN call.product_data[k].info :
                                 call.product_data[k].info[f] # ""})

\* C10: every order line has a product_id that is a key of the catalog and
\* a product_name equal to that entry's primary name as the catalog spells
\* it, whichever name key or stage produced the match.
C10_ItemNamesAreCatalogPrimaryNames ==
    call.op \in OrderOps
    => \A k \in 1..Len(result.order_items) :
           /\ HasId(CallCatalog, result.order_items[k].product_id)
           /\ "1st_name" \in DOMAIN InfoOf(CallCatalog, result.order_items[k].product_id)
           /\ result.order_items[k].product_name =
                  InfoOf(CallCatalog, result.order_items[k].product_id)["1st_name"]

\* an order line was made from a match on an alternate name: the matched key
\* is not the folded primary name, and the line shows the primary name
C10_Witness ==
    /\ call.op \in OrderOps
    /\ result.kind = "order"
    /\ \E k \in 1..Len(result.order_items), j \in 1..Len(result.product_matches) :
           /\ result.product_matches[j].matched_product_id = result.order_items[k].product_id
           /\ result.order_items[k].product_name # ""
           /\ result.product_matches[j].matched_product_name
                  # Lower(result.order_items[k].product_name)
           /\ result.order_items[k].product_name
                  # Lower(result.order_items[k].product_name)

(***************************************************************************)
(* deployment.py: the server that learns a store's products and answers    *)
(* get_product_id_from_product_name from the module global                 *)
(* product_name_to_id.  learn_product_data and a lookup advance in steps,  *)
(* one step per access to what they share: the files and the global.       *)
(***************************************************************************)

\* --- bounds ---

\* the requests one learn_product_data invocation is followed for
MaxRequests == 8

\* line 79
limit == 50

\* the file a path names, AbsentFile when there is none
FileAt(fs, path) == IF path \in DOMAIN fs THEN fs[path] ELSE AbsentFile

\* open(path, 'w') and what is written before close: the file is there and
\* holds no complete JSON document
Truncated == File("invalid", <<>>)

\* line 12: the file the index is built from
ProductLinkPath == "src/mcpserver/memory_file/product_link_id.json"

\* line 122: the file learn_product_data saves to
LearnedPath(store_id) == "src/mcpserver/memory_file/" \o store_id \o ".json"

\* lines 9-16: json.load of product_link_id.json, {} when there is no file;
\* a file that holds no JSON document raises JSONDecodeError
DeploymentLoad(f) ==
    IF f.kind = "absent" THEN [raised |-> None, value |-> File("dict", <<>>)]
    ELSE IF f.kind = "invalid" THEN [raised |-> "JSONDecodeError", value |-> f]
    ELSE [raised |-> None, value |-> f]

\* lines 35-42: the names of one product, each lower-cased
DeploymentAddNames(d, id, info) ==
    LET d1 == IF HasName(info, "1st_name") THEN DictSet(d, Lower(info["1st_name"]), id) ELSE d
        d2 == IF HasName(info, "2nd_name") THEN DictSet(d1, Lower(info["2nd_name"]), id) ELSE d1
    IN  IF HasName(info, "3rd_name") THEN DictSet(d2, Lower(info["3rd_name"]), id) ELSE d2

RECURSIVE DeploymentMappingFrom(_, _, _)
\* lines 29-42: the loop over product_data.items(), from the k-th item on
DeploymentMappingFrom(d, product_data, k) ==
    IF k > Len(product_data) THEN d
    ELSE DeploymentMappingFrom(
             DeploymentAddNames(d, product_data[k].id, product_data[k].info),
             product_data, k + 1)

\* lines 19-44 on the loaded value: no names for a value that is no dict
DeploymentMapping(loaded) ==
    IF loaded.kind # "dict" THEN <<>>
    ELSE DeploymentMappingFrom(<<>>, loaded.items, 1)

\* d[key] = value for all_data, a dict given as its sequence of items
AllDataSet(all_data, id, product) ==
    IF HasId(all_data, id)
    THEN [k \in 1..Len(all_data) |->
             IF all_data[k].id = id THEN [id |-> id, info |-> product] ELSE all_data[k]]
    ELSE Append(all_data, [id |-> id, info |-> product])

\* lines 110-113: one product of a page, keyed by 'id' or else 'product_id';
\* a product with neither is left out
AddProduct(all_data, product) ==
    IF "id" \in DOMAIN product THEN AllDataSet(all_data, product["id"], product)
    ELSE IF "product_id" \in DOMAIN product
    THEN AllDataSet(all_data, product["product_id"], product)
    ELSE all_data

RECURSIVE AddPage(_, _, _)
\* lines 109-113: the products of a page, from the k-th run on.  A page is
\* given as its runs of equal products, <<[product, times], ...>>: storing a
\* product again right after itself changes nothing.
AddPage(all_data, data, k) ==
    IF k > Len(data) THEN all_data
    ELSE AddPage(AddProduct(all_data, data[k].product), data, k + 1)

RECURSIVE DataLen(_, _)
\* len(data), from the k-th run on
DataLen(data, k) == IF k > Len(data) THEN 0 ELSE data[k].times + DataLen(data, k + 1)

\* --- the API ---

\* what the API answers: an HTTP error, or a JSON value whose data is a list
\* of products or some other value (a dict, a string, null)
ListResponse(data) == [kind |-> "list", data |-> data]

NonListResponse(truthy) == [kind |-> "other", truthy |-> truthy, data |-> <<>>]

HttpError == [kind |-> "http_error", data |-> <<>>]

ApiProduct1 == ("id" :> "1") @@ ("1st_name" :> "Fami Soy Milk")

ApiProduct2 ==
    ("product_id" :> "2") @@ ("1st_name" :> "Green Tea") @@ ("2nd_name" :> "Tra Xanh")

ApiProductNoId == ("1st_name" :> "Nameless")

\* a page of n copies of one product, and a page of single products
PageOf(product, n) == <<[product |-> product, times |-> n]>>

Page(products) == [k \in 1..Len(products) |-> [product |-> products[k], times |-> 1]]

\* line 100: not data
Falsy(response) ==
    \/ response.kind = "list" /\ response.data = <<>>
    \/ response.kind = "other" /\ ~response.truthy

\* the answers to a request with limit 50
Responses ==
    {ListResponse(<<>>), ListResponse(Page(<<ApiProduct1>>)),
     ListResponse(Page(<<ApiProduct2, ApiProductNoId>>)),
     ListResponse(PageOf(ApiProduct1, limit)),
     NonListResponse(TRUE), NonListResponse(FALSE), HttpError}

\* --- learn_product_data (lines 65-141) ---

IdleFrame == [pc |-> "idle"]

\* a return of learn_product_data
LearnReturn(frame, outcome) == [frame EXCEPT !.pc = "done", !.result = outcome]

\* lines 78-80
LearnFrame(api_token, store_id) ==
    [pc |-> "request", api_token |-> api_token, store_id |-> store_id,
     page |-> 1, all_data |-> <<>>, requests |-> 0, product_data |-> AbsentFile,
     result |-> None]

\* lines 94-119: what one answer does to the loop
LearnPage(frame, response) ==
    IF response.kind = "http_error" THEN LearnReturn(frame, "Error fetching data from API")
    ELSE IF Falsy(response) THEN [frame EXCEPT !.pc = "open"]
    ELSE IF response.kind = "list"
    THEN IF DataLen(response.data, 1) < limit
         THEN [frame EXCEPT !.pc = "open",
                            !.all_data = AddPage(frame.all_data, response.data, 1)]
         ELSE [frame EXCEPT !.page = frame.page + 1,
                            !.all_data = AddPage(frame.all_data, response.data, 1)]
    ELSE [frame EXCEPT !.page = frame.page + 1]

\* lines 84-119: one iteration of the loop
LearnIteration(frame, response) ==
    IF frame.api_token = "" \/ frame.store_id = ""
    THEN LearnReturn(frame, "Error: API token or store ID is missing")
    ELSE LearnPage([frame EXCEPT !.requests = frame.requests + 1], response)

\* lines 132-141: the index is built from what was loaded and published, or
\* the JSONDecodeError of the load is caught
LearnLoaded(frame, loaded) ==
    IF loaded.raised # None
    THEN LearnReturn(frame, "Error: The API response is not valid JSON")
    ELSE [frame EXCEPT !.pc = "publish", !.product_data = loaded.value]

\* --- get_product_id_from_product_name (lines 49-63) ---

\* line 60
PartialMatch(low, name) == Contains(name, low) \/ Contains(low, name)

NotFound == "not found in database"

\* lines 59-63: the first key that partially matches
ScanIn(d, low) ==
    IF \E k \in 1..Len(d) : PartialMatch(low, d[k].name)
    THEN d[CHOOSE k \in 1..Len(d) :
               /\ PartialMatch(low, d[k].name)
               /\ \A j \in 1..(k - 1) : ~PartialMatch(low, d[j].name)].id
    ELSE NotFound

\* line 56: the subscript raises KeyError for a key that is not there
SubscriptIn(d, low) == IF HasKey(d, low) THEN KeyId(d, low) ELSE "KeyError"

\* the lookup served from one index throughout
LookupIn(d, product_name) ==
    IF HasKey(d, Lower(product_name)) THEN KeyId(d, Lower(product_name))
    ELSE ScanIn(d, Lower(product_name))

\* --- the learning server ---

\* path := f
WriteFile(fs, path, f) ==
    [q \in DOMAIN fs \cup {path} |-> IF q = path THEN f ELSE fs[q]]

\* the catalog product_link_id.json holds when the server starts, if any
OldCatalog == <<Product("9", Info1("Old Tea") @@ ("2nd_name" :> "Tra Cu"))>>

LearnStoreIds == {"5341", "product_link_id", ""}

ApiTokens == {"odaautomation2323"}

LookupNames == {"Fami Soy Milk", "GREEN TEA", "old tea", "tea", "bia"}

\* line 47: the module is imported, the index is built from the file
InitLearn ==
    /\ memory_file = [s \in StoreIds |-> AbsentFile]
    /\ call = NoCall
    /\ result = NoResult
    /\ files \in {(ProductLinkPath :> f) : f \in {AbsentFile, File("dict", OldCatalog)}}
    /\ product_name_to_id = DeploymentMapping(DeploymentLoad(files[ProductLinkPath]).value)
    /\ frames = [learn |-> IdleFrame, lookup |-> IdleFrame]
    /\ history = <<>>

LearnCall(api_token, store_id) ==
    /\ frames.learn.pc = "idle"
    /\ frames' = [frames EXCEPT !.learn = LearnFrame(api_token, store_id)]
    /\ UNCHANGED <<memory_file, call, result, files, product_name_to_id, history>>

\* lines 82-119: a request is sent and answered
LearnRequest(response) ==
    /\ frames.learn.pc = "request"
    /\ frames.learn.requests < MaxRequests
    /\ frames' = [frames EXCEPT !.learn = LearnIteration(frames.learn, response)]
    /\ UNCHANGED <<memory_file, call, result, files, product_name_to_id, history>>

\* line 128: open(file_path, 'w')
LearnOpen ==
    /\ frames.learn.pc = "open"
    /\ files' = WriteFile(files, LearnedPath(frames.learn.store_id), Truncated)
    /\ frames' = [frames EXCEPT !.learn.pc = "dump"]
    /\ UNCHANGED <<memory_file, call, result, product_name_to_id, history>>

\* line 129 and the end of the with block: all_data is in the file
LearnDump ==
    /\ frames.learn.pc = "dump"
    /\ files' = WriteFile(files, LearnedPath(frames.learn.store_id),
                          File("dict", frames.learn.all_data))
    /\ frames' = [frames EXCEPT !.learn.pc = "load"]
    /\ UNCHANGED <<memory_file, call, result, product_name_to_id, history>>

\* line 133, line 21: create_product_name_to_id_mapping loads its file
LearnLoad ==
    /\ frames.learn.pc = "load"
    /\ frames' = [frames EXCEPT !.learn =
                     LearnLoaded(frames.learn, DeploymentLoad(FileAt(files, ProductLinkPath)))]
    /\ UNCHANGED <<memory_file, call, result, files, product_name_to_id, history>>

\* lines 133-135: the index built is bound to the global
LearnPublish ==
    /\ frames.learn.pc = "publish"
    /\ product_name_to_id' = DeploymentMapping(frames.learn.product_data)
    /\ frames' = [frames EXCEPT !.learn = LearnReturn(frames.learn, "Successfully learned")]
    /\ UNCHANGED <<memory_file, call, result, files, history>>

\* a lookup is called; learner_was is where learn_product_data was then
LookupCall(product_name) ==
    /\ frames.lookup.pc \in {"idle", "done"}
    /\ frames' = [frames EXCEPT !.lookup =
                     [pc |-> "check", product_name |-> product_name, seen |-> <<>>,
                      learner_was |-> frames.learn.pc, result |-> None]]
    /\ UNCHANGED <<memory_file, call, result, files, product_name_to_id, history>>

\* line 55: the global is read and the key looked for
LookupCheck ==
    /\ frames.lookup.pc = "check"
    /\ frames' = [frames EXCEPT
                     !.lookup.seen = product_name_to_id,
                     !.lookup.pc = IF HasKey(product_name_to_id,
                                             Lower(frames.lookup.product_name))
                                   THEN "subscript" ELSE "scan"]
    /\ UNCHANGED <<memory_file, call, result, files, product_name_to_id, history>>

\* line 56: the global is read again and subscripted
LookupSubscript ==
    /\ frames.lookup.pc = "subscript"
    /\ frames' = [frames EXCEPT
                     !.lookup.pc = "done",
                     !.lookup.result = SubscriptIn(product_name_to_id,
                                                   Lower(frames.lookup.product_name))]
    /\ UNCHANGED <<memory_file, call, result, files, product_name_to_id, history>>

\* lines 59-63: the global is read again and its items scanned
LookupScan ==
    /\ frames.lookup.pc = "scan"
    /\ frames' = [frames EXCEPT
                     !.lookup.pc = "done",
                     !.lookup.result = ScanIn(product_name_to_id,
                                              Lower(frames.lookup.product_name))]
    /\ UNCHANGED <<memory_file, call, result, files, product_name_to_id, history>>

NextLearn ==
    \/ \E t \in ApiTokens, s \in LearnStoreIds : LearnCall(t, s)
    \/ \E r \in Responses : LearnRequest(r)
    \/ LearnOpen
    \/ LearnDump
    \/ LearnLoad
    \/ LearnPublish
    \/ \E n \in LookupNames : LookupCall(n)
    \/ LookupCheck
    \/ LookupSubscript
    \/ LookupScan

SpecLearn == InitLearn /\ [][NextLearn]_vars

(***************************************************************************)
(* Properties of the learning server                                       *)
(***************************************************************************)

LookupDone == frames.lookup.pc = "done"

\* C11: when learn_product_data runs concurrently with lookups, every lookup
\* completes against the complete previous index or the complete new one: the
\* answer is what one of the two gives for the name, no lookup fails because
\* the index was replaced between two of its reads, and no load sees a
\* partially written file.
C11_LookupsSeeOneCompleteIndex ==
    /\ LookupDone =>
           /\ frames.lookup.result # "KeyError"
           /\ frames.lookup.result \in
                  {LookupIn(frames.lookup.seen, frames.lookup.product_name),
                   LookupIn(product_name_to_id, frames.lookup.product_name)}
    /\ frames.learn.pc = "done" =>
           frames.learn.result # "Error: The API response is not valid JSON"

(***************************************************************************)
(* find_best_product_match on its own: the catalog and the phrase are      *)
(* drawn, the index is built from the catalog and the phrase is matched    *)
(***************************************************************************)

\* --- bounds ---

\* the products of a catalog the matcher is given
MaxCatalog == 2

\* the products the matcher's catalogs are made of: the targets of two
\* overrides, names with a brand token and names without
MatcherProducts ==
    { Product("128661", Info1("Trà Gừng Cozy (20 gói)")),
      Product("121827", Info1("Sữa Fami")),
      Product("10", Info1("Cozy Green Tea")),
      Product("11", Info1("Tea Green Cozy")),
      Product("12", Info1("Green Tea")),
      Product("13", Info1("Black Tea") @@ ("2nd_name" :> "ab")) }

\* the catalogs of at most MaxCatalog of them, in every order
MatcherCatalogs == {c \in SeqsUpTo(MatcherProducts, MaxCatalog) : Injective(c)}

MatcherPhrases ==
    {"trà gừng cozy", "sữa ðậu nành fami trà gừng cozy", "green tea cozy", "cozy",
     "Green Tea", "gren tea", "tea time", "green coffee", "", "ab", "hq", "xyz",
     "tea", "%20Green%20Tea", "a b", "fami"}

InitMatcher ==
    /\ memory_file = [s \in StoreIds |-> AbsentFile]
    /\ call \in {[op |-> "match", product_text |-> t, product_data |-> c] :
                    t \in MatcherPhrases, c \in MatcherCatalogs}
    /\ result = NoResult
    /\ ServerIdle

Matcher ==
    /\ call.op = "match"
    /\ result = NoResult
    /\ result' = MatchResult(call.product_text,
                             create_product_name_to_id_mapping(call.product_data),
                             call.product_data)
    /\ UNCHANGED <<memory_file, call, server>>

NextMatcher == Matcher

SpecMatcher == InitMatcher /\ [][NextMatcher]_vars

(***************************************************************************)
(* Properties of the matcher's stages                                      *)
(***************************************************************************)

Matched == call.op = "match" /\ result.kind = "match"

\* the phrase as the stages see it: decoded, case-folded, trimmed
MatchedPhrase == Strip(Lower(Decoded(call.product_text)))

\* the index the phrase is matched against
MatchedIndex == create_product_name_to_id_mapping(call.product_data)

\* the overrides that apply: the phrase contains the text and the id is a
\* key of the catalog
ApplicableOverrides ==
    {k \in 1..Len(special_product_matches) :
         /\ Contains(MatchedPhrase, special_product_matches[k].text)
         /\ HasId(call.product_data, special_product_matches[k].id)}

FirstApplicableOverride ==
    special_product_matches[CHOOSE k \in ApplicableOverrides :
                                \A j \in ApplicableOverrides : k <= j]

\* C12: the special-case override is consulted before every other stage. The
\* override stage decides only when the phrase contains an override's text
\* and that override's id is a key of the catalog; whenever that is so the
\* result is the (id, canonical name) pair of the first such override in table
\* order; otherwise resolution falls through: a phrase that is a key of the
\* index is then decided by the exact-match stage.
C12_OverrideFirstAndOnlyIfInCatalog ==
    Matched =>
        /\ result.stage = "special" <=> ApplicableOverrides # {}
        /\ ApplicableOverrides # {} =>
               result.value = <<FirstApplicableOverride.id, FirstApplicableOverride.name>>
        /\ ApplicableOverrides = {} /\ HasKey(MatchedIndex, MatchedPhrase) =>
               /\ result.stage = "exact"
               /\ result.value = <<KeyId(MatchedIndex, MatchedPhrase), MatchedPhrase>>

\* two overrides applied and the first in table order was returned, though
\* the catalog lists the other one first
C12_Witness ==
    /\ Matched
    /\ Cardinality(ApplicableOverrides) = 2
    /\ result.value = <<"128661", "trà gừng cozy (20 gói)">>
    /\ call.product_data[1].id = "121827"

\* the stages before the brand stage return nothing for the phrase
StagesOneToThreePass ==
    /\ SpecialCaseStage(MatchedPhrase, call.product_data) = NoMatch
    /\ ExactStage(MatchedPhrase, MatchedIndex) = NoMatch
    /\ FuzzyStage(MatchedPhrase, MatchedIndex) = NoMatch

\* the brand tokens
BrandTokens == {"cozy", "fami", "hq", "cp"}

\* the (key, brand) pairs the brand stage is about: the brand is in the
\* phrase and in the key
BrandPairs ==
    {kb \in (1..Len(MatchedIndex)) \X BrandTokens :
         /\ Contains(MatchedPhrase, kb[2])
         /\ Contains(MatchedIndex[kb[1]].name, kb[2])}

\* the phrase minus the brand word
PhraseMinus(brand) ==
    LET words == SplitWords(MatchedPhrase)
    IN  JoinWords(FilterFrom(words, 1, {k \in 1..Len(words) : words[k] # brand}))

\* the brand score as C13 states it
C13Score(kb) ==
    LET key == MatchedIndex[kb[1]].name
        rest == SplitWords(PhraseMinus(kb[2]))
    IN  50 + IF Contains(key, PhraseMinus(kb[2])) THEN 30
             ELSE 10 * Cardinality({k \in 1..Len(rest) :
                                        Len(rest[k]) >= 3 /\ Contains(key, rest[k])})

\* C13: when stages 1-3 do not return and some index key contains a brand
\* token that is also in the phrase, the brand stage decides: it returns a key
\* that contains a brand token of the phrase, the key's id, and the pair's
\* brand score is the maximum over all such pairs; no all-keywords or general
\* candidate is returned.
C13_BrandStageReturnsMaximumBrandScore ==
    Matched /\ StagesOneToThreePass /\ BrandPairs # {} =>
        /\ result.stage = "brand"
        /\ \E kb \in BrandPairs :
               /\ result.value = <<MatchedIndex[kb[1]].id, MatchedIndex[kb[1]].name>>
               /\ \A other \in BrandPairs : C13Score(other) <= C13Score(kb)

\* the brand stage chose between two keys of different brand score, and took
\* the one that is not first in the index
C13_Witness ==
    /\ Matched
    /\ StagesOneToThreePass
    /\ result.stage = "brand"
    /\ \E kb, other \in BrandPairs : C13Score(other) < C13Score(kb)
    /\ result.value[2] # MatchedIndex[1].name
    /\ \E kb \in BrandPairs : kb[1] = 1

\* the general score of the k-th index key for the phrase
KeyScore(k) == GeneralScore(MatchedPhrase, MatchedIndex[k].name)

\* C14: in the general weighted-scoring stage the returned key has a strictly
\* positive score that is the maximum over all index keys, and among the keys
\* of that score it is the first in index iteration order.
C14_GeneralStageReturnsFirstMaximum ==
    Matched /\ result.stage = "general" =>
        \E k \in 1..Len(MatchedIndex) :
            /\ result.value = <<MatchedIndex[k].id, MatchedIndex[k].name>>
            /\ KeyScore(k) > 0
            /\ \A j \in 1..Len(MatchedIndex) : KeyScore(j) <= KeyScore(k)
            /\ \A j \in 1..(k - 1) : KeyScore(j) < KeyScore(k)

\* the general stage returned the first of two keys of the same, highest score
C14_TieWitness ==
    /\ Matched
    /\ result.stage = "general"
    /\ \E j, k \in 1..Len(MatchedIndex) :
           /\ j < k
           /\ result.value[2] = MatchedIndex[j].name
           /\ KeyScore(j) = KeyScore(k)

(***************************************************************************)
(* Properties of learn_product_data                                        *)
(***************************************************************************)

LearnSucceeded ==
    frames.learn.pc = "done" /\ frames.learn.result = "Successfully learned"

\* the index of the products a learn_product_data call fetched and saved
LearnedIndex == DeploymentMapping(File("dict", frames.learn.all_data))

\* C15: after learn_product_data has completed successfully, the global
\* product_name_to_id is the index of the product data that call fetched and
\* saved, and a lookup called afterwards for a name that call learned returns
\* the id the name was learned with.
C15_LearnedNamesAreFound ==
    LearnSucceeded =>
        /\ product_name_to_id = LearnedIndex
        /\ ( /\ LookupDone
             /\ frames.lookup.learner_was = "done"
             /\ HasKey(LearnedIndex, Lower(frames.lookup.product_name)) )
           => frames.lookup.result = KeyId(LearnedIndex, Lower(frames.lookup.product_name))

(***************************************************************************)
(* search_product_id.py: the search tool and the replacement names it      *)
(* saves in <store_id>_product_mappings.json                               *)
(***************************************************************************)

\* --- bounds ---

\* the calls of search_product_id in a row
MaxCalls == 2

\* lines 17-18, 58-59: the mappings file of a store
MappingsPath(store_id) == "source/order/" \o store_id \o "_product_mappings.json"

\* the default of replace_product_name: no replacement name is given
Null == "null"

\* lines 21-28, 62-69: the mappings loaded, {} when the file is not there or
\* holds no JSON document
LoadMappings(f) == IF f.kind = "dict" THEN f.items ELSE <<>>

\* name in mappings
HasMapping(mappings, name) ==
    \E k \in 1..Len(mappings) : mappings[k].original = name

\* mappings[name]
MappingOf(mappings, name) ==
    mappings[CHOOSE k \in 1..Len(mappings) : mappings[k].original = name].replacement

\* MappingSet with the names saved as given, not lower-cased
MappingSetAsGiven(mappings, original_name, replacement_name) ==
    IF HasMapping(mappings, original_name)
    THEN [k \in 1..Len(mappings) |->
             IF mappings[k].original = original_name
             THEN [original |-> original_name, replacement |-> replacement_name]
             ELSE mappings[k]]
    ELSE Append(mappings, [original |-> original_name, replacement |-> replacement_name])

\* line 31: mappings[original_name.lower()] = replacement_name.lower()
MappingSet(mappings, original_name, replacement_name) ==
    IF HasMapping(mappings, Lower(original_name))
    THEN [k \in 1..Len(mappings) |->
             IF mappings[k].original = Lower(original_name)
             THEN [original |-> Lower(original_name),
                   replacement |-> Lower(replacement_name)]
             ELSE mappings[k]]
    ELSE Append(mappings, [original |-> Lower(original_name),
                           replacement |-> Lower(replacement_name)])

\* lines 7-35 when nothing else touches the file in between
save_product_name_mapping(fs, store_id, original_name, replacement_name) ==
    WriteFile(fs, MappingsPath(store_id),
              File("dict", MappingSet(LoadMappings(FileAt(fs, MappingsPath(store_id))),
                                      original_name, replacement_name)))

\* SearchTerm that looks the name up as given, without line 72's lower()
SearchTermAsGiven(saved_mappings, product_name, replace_product_name) ==
    IF HasMapping(saved_mappings, product_name) /\ replace_product_name = Null
    THEN MappingOf(saved_mappings, product_name)
    ELSE IF replace_product_name = Null THEN product_name ELSE replace_product_name

\* lines 72-80
SearchTerm(saved_mappings, product_name, replace_product_name) ==
    IF HasMapping(saved_mappings, Lower(product_name)) /\ replace_product_name = Null
    THEN MappingOf(saved_mappings, Lower(product_name))
    ELSE IF replace_product_name = Null THEN product_name ELSE replace_product_name

\* lines 73-77
UsedSavedMapping(saved_mappings, product_name, replace_product_name) ==
    HasMapping(saved_mappings, Lower(product_name)) /\ replace_product_name = Null

\* lines 114-128: the score of a product for the search term
SearchScore(product, search_term) ==
    LET name == Lower(IF "1st_name" \in DOMAIN product THEN product["1st_name"] ELSE "")
        words == SplitWords(Lower(search_term))
    IN  IF name = Lower(search_term) THEN 100
        ELSE IF \A k \in 1..Len(words) : Contains(name, words[k]) THEN 50
        ELSE 10 * Cardinality({k \in 1..Len(words) :
                                   Contains(name, words[k]) /\ Len(words[k]) > 2})

\* lines 110-136: the first product of the highest score
BestProduct(all_products, search_term) ==
    all_products[CHOOSE k \in 1..Len(all_products) :
        /\ \A j \in 1..Len(all_products) :
               SearchScore(all_products[j], search_term)
                   <= SearchScore(all_products[k], search_term)
        /\ \A j \in 1..(k - 1) :
               SearchScore(all_products[j], search_term)
                   < SearchScore(all_products[k], search_term)]

\* what the API answers a search: an HTTP error, or the products found
SearchError == [kind |-> "http_error", products |-> <<>>]

Found(products) == [kind |-> "products", products |-> products]

\* lines 93-160: what search_product_id returns for an answer
SearchReturn(response, search_term, replace_product_name, used_saved_mapping) ==
    IF response.kind = "http_error" THEN [kind |-> "error", products |-> <<>>]
    ELSE IF response.products = <<>> THEN [kind |-> "cannot_find", products |-> <<>>]
    ELSE IF replace_product_name # Null
    THEN [kind |-> "mapping_saved", products |-> response.products]
    ELSE [kind |-> "found",
          products |-> IF Len(response.products) > 1
                       THEN <<BestProduct(response.products, search_term)>>
                       ELSE response.products,
          used_mapping |-> used_saved_mapping]

\* lines 97-103: the mapping is saved when products were found for a
\* replacement name
Saves(response, replace_product_name) ==
    /\ response.kind = "products"
    /\ response.products # <<>>
    /\ replace_product_name # Null

\* --- the search tool, one call after the other ---

SearchStore == "5341"

SearchNames == {"Coca", "COCA", "Pepsi"}

ReplacementNames == {Null, "Coke", "COLA"}

SearchProduct1 == ("id" :> "21") @@ ("1st_name" :> "Coca Cola")

SearchProduct2 == ("id" :> "22") @@ ("1st_name" :> "Coke")

SearchResponses ==
    {SearchError, Found(<<>>), Found(<<SearchProduct1>>),
     Found(<<SearchProduct1, SearchProduct2>>)}

\* the record of a call: what it was given, what it searched with, whether
\* products were found, and the mappings file before and after
CallRecord(product_name, replace_product_name, search_term, response, before, after) ==
    [product_name |-> product_name, replace_product_name |-> replace_product_name,
     search_term |-> search_term,
     found |-> response.kind = "products" /\ response.products # <<>>,
     before |-> before, after |-> after]

\* lines 40-160 for the mappings loaded at lines 62-69 and the API's answer
SearchWith(fs, saved_mappings, product_name, store_id, replace_product_name, response) ==
    [files |-> IF Saves(response, replace_product_name)
               THEN save_product_name_mapping(fs, store_id, product_name,
                                              replace_product_name)
               ELSE fs,
     search_term |-> SearchTerm(saved_mappings, product_name, replace_product_name),
     result |-> SearchReturn(response,
                             SearchTerm(saved_mappings, product_name, replace_product_name),
                             replace_product_name,
                             UsedSavedMapping(saved_mappings, product_name,
                                              replace_product_name))]

search_product_id(fs, product_name, store_id, replace_product_name, response) ==
    SearchWith(fs, LoadMappings(FileAt(fs, MappingsPath(store_id))),
               product_name, store_id, replace_product_name, response)

\* the store has no mappings file yet, or one that holds no JSON document
InitSearch ==
    /\ memory_file = [s \in StoreIds |-> AbsentFile]
    /\ call = NoCall
    /\ result = NoResult
    /\ files \in {(MappingsPath(SearchStore) :> f) : f \in {AbsentFile, Truncated}}
    /\ product_name_to_id = <<>>
    /\ frames = <<>>
    /\ history = <<>>

Searched(product_name, replace_product_name, response, done) ==
    /\ call' = [op |-> "search_product_id", product_name |-> product_name,
                store_id |-> SearchStore, replace_product_name |-> replace_product_name]
    /\ result' = done.result
    /\ files' = done.files
    /\ history' = Append(history,
                         CallRecord(product_name, replace_product_name, done.search_term,
                                    response,
                                    FileAt(files, MappingsPath(SearchStore)),
                                    FileAt(done.files, MappingsPath(SearchStore))))

SearchProductId(product_name, replace_product_name, response) ==
    /\ Len(history) < MaxCalls
    /\ Searched(product_name, replace_product_name, response,
                search_product_id(files, product_name, SearchStore,
                                  replace_product_name, response))
    /\ UNCHANGED <<memory_file, product_name_to_id, frames>>

NextSearch ==
    \E n \in SearchNames, r \in ReplacementNames, a \in SearchResponses :
        SearchProductId(n, r, a)

SpecSearch == InitSearch /\ [][NextSearch]_vars

(***************************************************************************)
(* Properties of the saved mappings                                        *)
(***************************************************************************)

\* the earlier calls that supplied a replacement for the name of the i-th
\* call (compared case-insensitively) and found at least one product
Savers(i) ==
    {j \in 1..(i - 1) :
         /\ history[j].replace_product_name # Null
         /\ Lower(history[j].product_name) = Lower(history[i].product_name)
         /\ history[j].found}

LastSaver(i) == CHOOSE j \in Savers(i) : \A k \in Savers(i) : k <= j

PhraseWords == SplitWords(MatchedPhrase)

\* the phrase has no word longer than 2 characters
NoLongWord == \A k \in 1..Len(PhraseWords) : Len(PhraseWords[k]) <= 2

\* the four stages before the all-keywords stage return nothing
StagesOneToFourPass ==
    /\ StagesOneToThreePass
    /\ BrandStage(MatchedPhrase, MatchedIndex) = NoMatch

\* C17: when the cleaned phrase has no word longer than 2 characters (the
\* empty phrase included) and the index is not empty, the matcher never
\* returns (None, None); unless one of the stages before it returned, the
\* all-keywords stage decides and returns the first key of the index.
C17_ShortWordsMatchFirstKey ==
    Matched /\ NoLongWord /\ MatchedIndex # <<>> =>
        /\ result.value # <<None, None>>
        /\ StagesOneToFourPass =>
               /\ result.stage = "keywords"
               /\ result.value = <<MatchedIndex[1].id, MatchedIndex[1].name>>

\* a phrase of one two-letter word that no key of a two-key index contains
\* was matched to the first key by the all-keywords stage
C17_Witness ==
    /\ Matched
    /\ Len(PhraseWords) = 1
    /\ Len(PhraseWords[1]) = 2
    /\ Len(MatchedIndex) = 2
    /\ \A k \in 1..2 : ~Contains(MatchedIndex[k].name, PhraseWords[1])
    /\ StagesOneToFourPass
    /\ result.stage = "keywords"
    /\ result.value = <<MatchedIndex[1].id, MatchedIndex[1].name>>

\* the general stage was reached: none of the five stages before it returned
GeneralStageReached == result.stage \in {"general", "none"}

\* the k-th key shares a brand token with the phrase
SharesBrand(k) ==
    \E b \in BrandTokens :
        Contains(MatchedPhrase, b) /\ Contains(MatchedIndex[k].name, b)

\* the k-th key gets the +15 bonus of the general stage
BrandBonus(k) ==
    \E i \in SharedIdentifiers(MatchedPhrase, MatchedIndex[k].name) :
        IsBrand(special_identifiers[i])

\* C18: the general stage is reached only when no key of the index contains
\* every phrase word longer than 2 characters and no key shares a brand token
\* with the phrase; so no key scored there gets the +10 for containing the
\* phrase, the +4 for containing all words, or the +15 for a brand.
C18_GeneralStageHasNoContainmentOrBrandBonus ==
    Matched /\ GeneralStageReached =>
        \A k \in 1..Len(MatchedIndex) :
            /\ ~AllKeyWordsIn(KeyWords(MatchedPhrase), MatchedIndex[k].name)
            /\ ~SharesBrand(k)
            /\ PhrasePoints(MatchedPhrase, MatchedIndex[k].name) # 10
            /\ ~BrandBonus(k)

\* the general stage scored the keys of a two-key index and returned one
C18_Witness ==
    /\ Matched
    /\ result.stage = "general"
    /\ Len(MatchedIndex) = 2
    /\ KeyScore(1) > 0

(***************************************************************************)
(* study.py: learn_product_data that uploads each page to a vector store   *)
(* (lines 25-31, 75-181)                                                   *)
(***************************************************************************)

\* line 103
StudyLimit == 100

\* line 89: the name of the vector store of the two companies
VectorStoreName(supplier_company_id, buy_company_id) ==
    "MEMORIES_PRODUCT_" \o supplier_company_id \o "_" \o buy_company_id

\* a vector store and the ids of the files in it
VectorStore(file_ids) == File("vector_store", file_ids)

\* lines 25-31: the store of that name, created empty when there is none
get_or_create_vector_store(fs, name) ==
    IF name \in DOMAIN fs THEN fs ELSE (name :> VectorStore(<<>>)) @@ fs

\* lines 92-95: the files are deleted when is_delete is set
DeleteFiles(fs, name, is_delete) ==
    IF is_delete THEN [fs EXCEPT ![name] = VectorStore(<<>>)] ELSE fs

\* lines 102-105
StudyFrame(api_token, supplier_company_id, buy_company_id, page) ==
    [pc |-> "request", api_token |-> api_token,
     supplier_company_id |-> supplier_company_id,
     buy_company_id |-> buy_company_id,
     page |-> page, max_page |-> page + 5, total_products |-> 0,
     file_ids |-> <<>>, requested |-> <<>>, result |-> None]

\* a return of learn_product_data
StudyReturn(frame, outcome) == [frame EXCEPT !.pc = "done", !.result = outcome]

RECURSIVE PageProductCount(_, _)
\* lines 136-143: the products of a page that have an 'id' or a 'product_id',
\* from the k-th run on
PageProductCount(data, k) ==
    IF k > Len(data) THEN 0
    ELSE (IF "id" \in DOMAIN data[k].product \/ "product_id" \in DOMAIN data[k].product
          THEN data[k].times ELSE 0)
         + PageProductCount(data, k + 1)

\* lines 156-163: the id the API gives the uploaded file
NewFileId(fs, name) == Len(fs[name].items) + 1

\* lines 130-172: a page that is a non-empty list; uploaded tells whether the
\* upload succeeded
StudyList(frame, data, file_id, uploaded) ==
    IF ~uploaded THEN StudyReturn(frame, "Error uploading page to vector store")
    ELSE IF DataLen(data, 1) < StudyLimit
    THEN [frame EXCEPT !.pc = "return",
                       !.total_products = frame.total_products + PageProductCount(data, 1),
                       !.file_ids = Append(frame.file_ids, <<frame.page, file_id>>)]
    ELSE [frame EXCEPT !.pc = IF frame.page + 1 > frame.max_page
                               THEN "return" ELSE "request",
                       !.page = frame.page + 1,
                       !.total_products = frame.total_products + PageProductCount(data, 1),
                       !.file_ids = Append(frame.file_ids, <<frame.page, file_id>>)]

\* lines 119-172: what one answer does to the loop; data that is not a list
\* and not falsy passes both tests and the loop goes round again
StudyPage(frame, response, file_id, uploaded) ==
    IF response.kind = "http_error" THEN StudyReturn(frame, "Error fetching data from API")
    ELSE IF Falsy(response) THEN [frame EXCEPT !.pc = "return"]
    ELSE IF response.kind = "list"
    THEN StudyList(frame, response.data, file_id, uploaded)
    ELSE frame

\* lines 175: the loop was left by a break
StudyFinished(frame) ==
    IF frame.pc = "return" THEN StudyReturn(frame, "Successfully saved") ELSE frame

\* lines 108-175: one iteration of the loop
StudyIteration(frame, response, file_id, uploaded) ==
    IF frame.api_token = "" \/ frame.supplier_company_id = "" \/ frame.buy_company_id = ""
    THEN StudyReturn(frame,
             "Error: API token or supplier company ID or buy company ID is missing")
    ELSE StudyFinished(StudyPage([frame EXCEPT !.requested = Append(frame.requested, frame.page)],
                                 response, file_id, uploaded))

\* lines 156-159: the file is in the store once the upload has succeeded
Uploaded(fs, name, frame, response, uploaded) ==
    IF /\ frame.api_token # "" /\ frame.supplier_company_id # ""
       /\ frame.buy_company_id # ""
       /\ response.kind = "list" /\ response.data # <<>> /\ uploaded
    THEN [fs EXCEPT ![name] = VectorStore(Append(fs[name].items, NewFileId(fs, name)))]
    ELSE fs

\* --- bounds ---

SupplierCompanyIds == {"", "7"}

BuyCompanyIds == {"8"}

StudyPages == {1, 3}

\* the answers to a request with limit 100
StudyResponses ==
    {ListResponse(<<>>), ListResponse(Page(<<ApiProduct1>>)),
     ListResponse(Page(<<ApiProduct2, ApiProductNoId>>)),
     ListResponse(PageOf(ApiProduct1, StudyLimit)),
     NonListResponse(TRUE), NonListResponse(FALSE), HttpError}

\* the vector stores when the server starts: none, or the one of companies 7
\* and 8 with a file in it
InitStudy ==
    /\ memory_file = [s \in StoreIds |-> AbsentFile]
    /\ call = NoCall
    /\ result = NoResult
    /\ files \in {<<>>, (VectorStoreName("7", "8") :> VectorStore(<<1>>))}
    /\ product_name_to_id = <<>>
    /\ frames = [study |-> IdleFrame]
    /\ history = <<>>

\* lines 89-105: the store is found or created and its files listed and,
\* when asked, deleted; listed tells whether that went through
StudyCall(api_token, supplier_company_id, buy_company_id, is_delete, page, listed) ==
    /\ frames.study.pc = "idle"
    /\ LET name == VectorStoreName(supplier_company_id, buy_company_id)
           fs == get_or_create_vector_store(files, name)
       IN  IF listed
           THEN /\ files' = DeleteFiles(fs, name, is_delete)
                /\ frames' = [frames EXCEPT !.study =
                                  StudyFrame(api_token, supplier_company_id,
                                             buy_company_id, page)]
           ELSE /\ files' = fs
                /\ frames' = [frames EXCEPT !.study =
                                  StudyReturn(StudyFrame(api_token, supplier_company_id,
                                                         buy_company_id, page),
                                      "Error deleting existing files from vector store")]
    /\ UNCHANGED <<memory_file, call, result, product_name_to_id, history>>

\* lines 107-175: a request is sent and answered, and the page uploaded
StudyRequest(response, uploaded) ==
    /\ frames.study.pc = "request"
    /\ Len(frames.study.requested) < MaxRequests
    /\ LET frame == frames.study
           name == VectorStoreName(frame.supplier_company_id, frame.buy_company_id)
       IN  /\ frames' = [frames EXCEPT !.study =
                             StudyIteration(frame, response, NewFileId(files, name),
                                            uploaded)]
           /\ files' = Uploaded(files, name, frame, response, uploaded)
    /\ UNCHANGED <<memory_file, call, result, product_name_to_id, history>>

NextStudy ==
    \/ \E api_token \in ApiTokens \cup {""}, supplier_company_id \in SupplierCompanyIds,
          buy_company_id \in BuyCompanyIds, is_delete \in BOOLEAN, page \in StudyPages,
          listed \in BOOLEAN :
          StudyCall(api_token, supplier_company_id, buy_company_id, is_delete, page, listed)
    \/ \E response \in StudyResponses, uploaded \in BOOLEAN :
          StudyRequest(response, uploaded)

SpecStudy == InitStudy /\ [][NextStudy]_vars

(***************************************************************************)
(* Properties of the pagination loop                                       *)
(***************************************************************************)

\* the pages a learn_product_data call has requested so far
Requested == IF frames.study.pc = "idle" THEN <<>> ELSE frames.study.requested

\* C19: each iteration of the pagination loop requests a later page than the
\* one before it, and the vector-store variant requests at most six pages,
\* so the loop ends whatever the API answers.
C19_PagesAdvanceAndAreAtMostSix ==
    /\ \A i \in 1..(Len(Requested) - 1) : Requested[i] < Requested[i + 1]
    /\ Len(Requested) <= 6

(***************************************************************************)
(* Two search_product_id invocations that save a mapping at the same time  *)
(* (search_product_id.py 7-35, 100-107)                                    *)
(***************************************************************************)

\* the two invocations
Invocations == {"a", "b"}

\* lines 101-103: the search found products for the replacement name and
\* save_product_name_mapping is entered
SaveFrame(product_name, replace_product_name) ==
    [pc |-> "exists", original_name |-> product_name,
     replacement_name |-> replace_product_name, exists |-> FALSE, mappings |-> <<>>]

\* the mappings file when the invocations start: not there, or with one
\* mapping saved earlier
SavedBefore ==
    {AbsentFile, File("dict", <<[original |-> "fanta", replacement |-> "mirinda"]>>)}

InitSave ==
    /\ memory_file = [s \in StoreIds |-> AbsentFile]
    /\ call = NoCall
    /\ result = NoResult
    /\ files \in {(MappingsPath(SearchStore) :> f) : f \in SavedBefore}
    /\ product_name_to_id = <<>>
    /\ frames = [t \in Invocations |-> IdleFrame]
    /\ history = <<>>

\* lines 40-103: the invocation has searched with the replacement name, found
\* products, and calls save_product_name_mapping
SaveCall(t, product_name, replace_product_name) ==
    /\ frames[t].pc = "idle"
    /\ Saves(Found(<<SearchProduct1>>), replace_product_name)
    /\ frames' = [frames EXCEPT ![t] = SaveFrame(product_name, replace_product_name)]
    /\ UNCHANGED <<memory_file, call, result, files, product_name_to_id, history>>

\* line 21: os.path.exists(mapping_file)
SaveExists(t) ==
    /\ frames[t].pc = "exists"
    /\ frames' = [frames EXCEPT ![t].exists =
                      FileAt(files, MappingsPath(SearchStore)).kind # "absent",
                                ![t].pc = "load"]
    /\ UNCHANGED <<memory_file, call, result, files, product_name_to_id, history>>

\* lines 22-31: the file is read when it was there, and the mapping set in
\* what was read; a file the other invocation has opened for writing and not
\* yet written holds no JSON document
SaveLoad(t) ==
    /\ frames[t].pc = "load"
    /\ frames' = [frames EXCEPT ![t].mappings =
                      MappingSet(IF frames[t].exists
                                 THEN LoadMappings(FileAt(files, MappingsPath(SearchStore)))
                                 ELSE <<>>,
                                 frames[t].original_name, frames[t].replacement_name),
                                ![t].pc = "open"]
    /\ UNCHANGED <<memory_file, call, result, files, product_name_to_id, history>>

\* line 34: open(mapping_file, 'w') empties the file
SaveOpen(t) ==
    /\ frames[t].pc = "open"
    /\ files' = WriteFile(files, MappingsPath(SearchStore), Truncated)
    /\ frames' = [frames EXCEPT ![t].pc = "dump"]
    /\ UNCHANGED <<memory_file, call, result, product_name_to_id, history>>

\* line 35: json.dump(mappings, f) and the file is closed
SaveDump(t) ==
    /\ frames[t].pc = "dump"
    /\ files' = WriteFile(files, MappingsPath(SearchStore),
                          File("dict", frames[t].mappings))
    /\ frames' = [frames EXCEPT ![t].pc = "done"]
    /\ UNCHANGED <<memory_file, call, result, product_name_to_id, history>>

NextSave ==
    \/ \E t \in Invocations, n \in SearchNames, r \in ReplacementNames : SaveCall(t, n, r)
    \/ \E t \in Invocations : SaveExists(t)
    \/ \E t \in Invocations : SaveLoad(t)
    \/ \E t \in Invocations : SaveOpen(t)
    \/ \E t \in Invocations : SaveDump(t)

SpecSave == InitSave /\ [][NextSave]_vars

\* the mappings the file holds
SavedMappings == LoadMappings(FileAt(files, MappingsPath(SearchStore)))

\* the file holds the mapping invocation t saved
HoldsMappingOf(t) ==
    /\ HasMapping(SavedMappings, Lower(frames[t].original_name))
    /\ MappingOf(SavedMappings, Lower(frames[t].original_name))
           = Lower(frames[t].replacement_name)

\* C20: when two invocations have each saved a mapping for the same store,
\* under different original names, the mappings file holds both mappings,
\* however their steps were interleaved.
C20_BothMappingsAreSaved ==
    ( /\ \A t \in Invocations : frames[t].pc = "done"
      /\ Lower(frames["a"].original_name) # Lower(frames["b"].original_name) )
    => \A t \in Invocations : HoldsMappingOf(t)

====
